---- MODULE Spec2Model ----
(***************************************************************************)
(* A model of @node-in-layers/mcp-server: the hide rules and the built-in  *)
(* discovery / execution tools (nil.ts, models.ts, libs.ts), the nested    *)
(* feature tools' isHidden (mcp.ts), the cross layer props merge and the   *)
(* logging wrapper (internal-libs.ts) and the response envelope (libs.ts). *)
(*                                                                         *)
(* JavaScript values are records with a "kind" field; a promise or a call  *)
(* is an outcome record [status, value] with status "resolved",            *)
(* "rejected" (promise), "returned" or "thrown" (synchronous).             *)
(***************************************************************************)
EXTENDS Integers, Sequences, FiniteSets, TLC

VARIABLES
  cfg,      \* context.config[McpNamespace]: hiddenPaths and hideComponents
  call,     \* the tool call being served: tool name and raw input
  outcome,  \* what the tool's execute gave back for that call
  invoked,  \* the registry functions (features, model CRUDs) the call invoked
  nested,   \* the nested feature tools: options.hiddenPaths, a path, isHidden(path)
  wrapped,  \* a call through the logging wrapper: tool, input, extra, what the
            \* tool received and what the transport got back
  tools,    \* the tools pushed by addTool / addAnnotatedFunction, in order
  http      \* the HTTP app: stateful or not, the session table, the servers
            \* built for sessions, the response to the request being served

vars == <<cfg, call, outcome, invoked, nested, wrapped, tools, http>>

---------------------------------------------------------------------------
(* Bounds of the model.                                                    *)

\* At most this many hide rules (hiddenPaths, hideComponents.paths and
\* hideComponents.domains entries together) in one configuration.
MaxRules == 2
\* The longest path handed to isHidden (domain.cruds.model.operation is 4).
MaxPathLen == 4

---------------------------------------------------------------------------
(* JavaScript values.                                                      *)

Undefined == [kind |-> "undefined"]
Null == [kind |-> "null"]
Str(s) == [kind |-> "string", s |-> s]
Arr(items) == [kind |-> "array", items |-> items]
Num(n) == [kind |-> "number", n |-> n]
False == [kind |-> "boolean", b |-> FALSE]
\* new Error(message)
ErrorOf(message) == [kind |-> "Error", message |-> message]
\* TypeError raised by the runtime (property of undefined, call of a non-function)
TypeError(message) == [kind |-> "Error", message |-> message]
\* an object that JSON.stringify rejects (a cycle, a BigInt field)
Circular == [kind |-> "object", circular |-> TRUE]

Resolved(v) == [status |-> "resolved", value |-> v]
Rejected(e) == [status |-> "rejected", value |-> e]
Returned(v) == [status |-> "returned", value |-> v]
Thrown(e) == [status |-> "thrown", value |-> e]

McpNamespace == "@node-in-layers/mcp-server"

\* createErrorObject(code, message, error?) of @node-in-layers/core, as the
\* tests of this repository pin it down: {error: {code, message}} and, given
\* an Error, its message as details and its string form as errorDetails.
createErrorObject(code, message, error) ==
  IF error = Undefined
    THEN [kind |-> "object", error |-> [code |-> code, message |-> message]]
    ELSE IF error.kind = "Error"
      THEN [kind |-> "object",
            error |-> [code |-> code, message |-> message,
                       details |-> error.message,
                       errorDetails |-> "Error: " \o error.message]]
      ELSE [kind |-> "object",
            error |-> [code |-> code, message |-> message, data |-> error]]

\* isErrorObject of @node-in-layers/core: an object carrying an `error` key.
isErrorObject(v) == v.kind = "object" /\ "error" \in DOMAIN v

\* JSON.stringify: the text is the JSON of v; a cyclic object makes it throw.
Stringifiable(v) == ~(v.kind = "object" /\ "circular" \in DOMAIN v)
JSONstringify(v) == [json |-> v]
JSONparse(text) == text.json

---------------------------------------------------------------------------
(* libs.ts: the response envelope.                                         *)

\* createMcpResponse with the isError flag spread unconditionally.
createMcpResponseAlwaysError(result, optsIsError) ==
  LET structured == result.kind \in {"object", "Error"}
      payload == IF result # Undefined THEN result ELSE Str("\"\"")
      base == [kind |-> "object", isError |-> TRUE,
               content |-> <<[type |-> "text", text |-> JSONstringify(payload)]>>]
  IN IF ~Stringifiable(payload)
       THEN Thrown(TypeError("Converting circular structure to JSON"))
       ELSE Returned(IF structured
                       THEN base @@ [structuredContent |-> result]
                       ELSE base)

\* createMcpResponse without the structuredContent spread.
createMcpResponseTextOnly(result, optsIsError) ==
  LET isError == optsIsError \/ isErrorObject(result)
      payload == IF result # Undefined THEN result ELSE Str("\"\"")
      base == [kind |-> "object",
               content |-> <<[type |-> "text", text |-> JSONstringify(payload)]>>]
  IN IF ~Stringifiable(payload)
       THEN Thrown(TypeError("Converting circular structure to JSON"))
       ELSE Returned(IF isError THEN base @@ [isError |-> TRUE] ELSE base)

createMcpResponse(result, optsIsError) ==
  LET isError == optsIsError \/ isErrorObject(result)
      \* typeof result === 'object' && !Array.isArray(result), null excluded
      structured == result.kind \in {"object", "Error"}
      payload == IF result # Undefined THEN result ELSE Str("\"\"")
      base == [kind |-> "object",
               content |-> <<[type |-> "text", text |-> JSONstringify(payload)]>>]
      withError == IF isError THEN base @@ [isError |-> TRUE] ELSE base
  IN IF ~Stringifiable(payload)
       THEN Thrown(TypeError("Converting circular structure to JSON"))
       ELSE Returned(IF structured
                       THEN withError @@ [structuredContent |-> result]
                       ELSE withError)

createDomainNotFoundError == createErrorObject("DOMAIN_NOT_FOUND", "Domain not found", Undefined)
createModelNotFoundError == createErrorObject("MODEL_NOT_FOUND", "Model not found", Undefined)
createFeatureNotFoundError == createErrorObject("FEATURE_NOT_FOUND", "Feature not found", Undefined)
createModelsNotFoundError == createErrorObject("MODELS_NOT_FOUND", "Models not found", Undefined)

isMcpResponse(result) ==
  /\ result.kind = "object"
  /\ "content" \in DOMAIN result
  /\ Len(result.content) >= 1
  /\ result.content[1].type = "text"

\* _formatResponse without the isMcpResponse early return.
_formatResponseAlwaysWraps(result) ==
  IF result # Null /\ result # Undefined /\ isErrorObject(result)
    THEN createMcpResponse(result, TRUE)
    ELSE createMcpResponse(result, FALSE)

_formatResponse(result) ==
  IF isMcpResponse(result)
    THEN Returned(result)
    ELSE IF result # Null /\ result # Undefined /\ isErrorObject(result)
      THEN createMcpResponse(result, TRUE)
      ELSE createMcpResponse(result, FALSE)

UncaughtMessage == "An uncaught exception occurred while executing the feature."

\* The .catch handler of commonMcpExecute, run on the rejection's error.
commonMcpExecuteCatch(error) ==
  LET formatted == _formatResponse(
        createErrorObject("UNCAUGHT_EXCEPTION", UncaughtMessage, error))
  IN IF formatted.status = "returned"
       THEN Resolved(formatted.value)
       ELSE Rejected(formatted.value)

\* commonMcpExecute(func)(...inputs), given what func(...inputs) does:
\* func(...inputs).then(_formatResponse).catch(...). A synchronous throw of
\* func happens before any promise exists and leaves the wrapper as a throw;
\* a func that returns no promise has no .then.
commonMcpExecute(funcOutcome) ==
  CASE funcOutcome.status = "thrown" -> Thrown(funcOutcome.value)
    [] funcOutcome.status = "returned" ->
         Thrown(TypeError("func(...).then is not a function"))
    [] funcOutcome.status = "rejected" -> commonMcpExecuteCatch(funcOutcome.value)
    [] funcOutcome.status = "resolved" ->
         LET formatted == _formatResponse(funcOutcome.value)
         IN IF formatted.status = "returned"
              THEN Resolved(formatted.value)
              ELSE commonMcpExecuteCatch(formatted.value)

\* An `async` function: whatever its body does, the caller gets a promise.
Async(bodyOutcome) ==
  CASE bodyOutcome.status = "returned" -> Resolved(bodyOutcome.value)
    [] bodyOutcome.status = "thrown" -> Rejected(bodyOutcome.value)
    [] OTHER -> bodyOutcome

---------------------------------------------------------------------------
(* The feature / model registry (context.features) the tools consult.     *)
(* Object.entries order is the order of the sequences.                     *)

DomainOrder == <<"@node-in-layers/data", "billing", "internal">>
RegisteredDomains == {DomainOrder[i] : i \in 1..Len(DomainOrder)}

\* The keys of context.features[domain], in order, with typeof of each value.
Entries(domain) ==
  CASE domain = "@node-in-layers/data" ->
         <<[name |-> "getDataProvider", type |-> "function"]>>
    [] domain = "billing" ->
         <<[name |-> "createInvoice", type |-> "function"],
           [name |-> "cruds", type |-> "object"]>>
    [] domain = "internal" ->
         <<[name |-> "ping", type |-> "function"]>>
    [] OTHER -> <<>>

\* The keys of context.features[domain].cruds, in order (<<>> without cruds).
Models(domain) ==
  IF domain = "billing" THEN <<"Invoices", "Payments">> ELSE <<>>

Range(seq) == {seq[i] : i \in 1..Len(seq)}
EntryNames(domain) == {e.name : e \in Range(Entries(domain))}
\* typeof context.features[domain]?.[name]: "undefined" when there is none.
EntryType(domain, name) ==
  IF name \in EntryNames(domain)
    THEN (CHOOSE e \in Range(Entries(domain)) : e.name = name).type
    ELSE "undefined"
hasCruds(domain) == "cruds" \in EntryNames(domain)

\* config['@node-in-layers/core'].apps[..].description
AppDescription(domain) == IF domain = "billing" THEN "Billing" ELSE ""
\* feature.schema?.description of an annotated feature
FeatureDescription(domain, name) ==
  IF domain = "billing" /\ name = "createInvoice" THEN "Creates an invoice" ELSE ""
\* model.getModel().getName() and getModelDefinition().description
ModelTypeName(domain, model) == domain \o "/" \o model
ModelDescription(domain, model) == IF model = "Invoices" THEN "An invoice" ELSE ""

---------------------------------------------------------------------------
(* The configuration.                                                      *)

PathCandidates ==
  {"billing", "billing.createInvoice", "billing.cruds",
   "billing.cruds.Invoices", "internal", "internal.ping"}
DomainCandidates == {"billing", "internal"}

RuleItems ==
  ({"hiddenPaths", "paths"} \X PathCandidates) \cup ({"domains"} \X DomainCandidates)

MkConfig(rules, allModels) ==
  [hiddenPaths |-> {r[2] : r \in {x \in rules : x[1] = "hiddenPaths"}},
   hideComponents |->
     [paths |-> {r[2] : r \in {x \in rules : x[1] = "paths"}},
      domains |-> {r[2] : r \in {x \in rules : x[1] = "domains"}},
      allModels |-> allModels]]

Configs ==
  {MkConfig(rules, allModels) :
     rules \in {R \in SUBSET RuleItems : Cardinality(R) <= MaxRules},
     allModels \in BOOLEAN}

\* A predicate factory called without its config argument gets undefined.
NoConfig == [undefined |-> TRUE]

---------------------------------------------------------------------------
(* libs.ts: the hide predicates. Each gives "true", "false" or, when it    *)
(* dereferences a config that is undefined, "TypeError".                   *)

doesDomainNotExist(domain) == domain \notin RegisteredDomains

isDomainHidden(hiddenPaths, config, domain) ==
  IF domain \in hiddenPaths THEN "true"
  ELSE IF config = NoConfig THEN "TypeError"
  ELSE IF domain \in config.hideComponents.domains THEN "true" ELSE "false"

areAllModelsHidden(hiddenPaths, config, domain) ==
  IF (domain \o ".cruds") \in hiddenPaths THEN "true"
  ELSE IF config = NoConfig THEN "TypeError"
  ELSE IF config.hideComponents.allModels THEN "true" ELSE "false"

isFeatureHidden(hiddenPaths, config, domain, featureName) ==
  IF (domain \o "." \o featureName) \in hiddenPaths THEN "true"
  ELSE IF config = NoConfig THEN "TypeError"
  ELSE IF (domain \o "." \o featureName) \in config.hideComponents.paths
    THEN "true" ELSE "false"

isModelHidden(hiddenPaths, config, domain, modelName) ==
  IF (domain \o ".cruds." \o modelName) \in hiddenPaths THEN "true"
  ELSE IF config = NoConfig THEN "TypeError"
  ELSE IF (domain \o ".cruds." \o modelName) \in config.hideComponents.paths
    THEN "true" ELSE "false"

\* a || b on such results: b is evaluated only when a is falsy.
Or(a, b) == IF a = "false" THEN b ELSE a
Bool(b) == IF b THEN "true" ELSE "false"
ConfigTypeError == TypeError("Cannot read properties of undefined")

BuiltInHiddenPaths ==
  {"@node-in-layers/core", "@node-in-layers/data", "@node-in-layers/mcp-server"}

---------------------------------------------------------------------------
(* nil.ts: list_domains, list_features, describe_feature, execute_feature. *)

_getHiddenPaths(config) == BuiltInHiddenPaths \cup config.hiddenPaths

WithDescription(item, description) ==
  IF description # "" THEN item @@ [description |-> description] ELSE item

_listFeaturesOfDomain(config, domain) ==
  LET hiddenPaths == _getHiddenPaths(config)
      listed(e) ==
        /\ e.type = "function"
        /\ isFeatureHidden(hiddenPaths, config, domain, e.name) # "true"
      kept == SelectSeq(Entries(domain), listed)
  IN IF Or(Bool(doesDomainNotExist(domain)),
           isDomainHidden(hiddenPaths, config, domain)) = "true"
       THEN createDomainNotFoundError
       ELSE Arr([i \in 1..Len(kept) |->
                   WithDescription([name |-> kept[i].name],
                                   FeatureDescription(domain, kept[i].name))])

hasExposedFeatures(config, domain) ==
  LET featuresResult == _listFeaturesOfDomain(config, domain)
  IN ~isErrorObject(featuresResult) /\ Len(featuresResult.items) > 0

hasExposedModels(config, domain) ==
  LET hiddenPaths == _getHiddenPaths(config)
  IN /\ ~config.hideComponents.allModels
     /\ hasCruds(domain)
     /\ areAllModelsHidden(hiddenPaths, config, domain) # "true"
     /\ \E modelName \in Range(Models(domain)) :
          isModelHidden(hiddenPaths, config, domain, modelName) # "true"

\* list_domains without the "has something exposed" filter.
_listDomainsNoExposureCheck(config) ==
  LET hiddenPaths == _getHiddenPaths(config)
      listed(domainName) ==
        Or(Bool(doesDomainNotExist(domainName)),
           isDomainHidden(hiddenPaths, config, domainName)) # "true"
      kept == SelectSeq(DomainOrder, listed)
  IN Arr([i \in 1..Len(kept) |->
            WithDescription([name |-> kept[i]], AppDescription(kept[i]))])

_listDomains(config) ==
  LET hiddenPaths == _getHiddenPaths(config)
      listed(domainName) ==
        /\ Or(Bool(doesDomainNotExist(domainName)),
              isDomainHidden(hiddenPaths, config, domainName)) # "true"
        /\ hasExposedFeatures(config, domainName) \/ hasExposedModels(config, domainName)
      kept == SelectSeq(DomainOrder, listed)
  IN Arr([i \in 1..Len(kept) |->
            WithDescription([name |-> kept[i]], AppDescription(kept[i]))])

_listDomainsTool(config) ==
  commonMcpExecute(Async(
    createMcpResponse([kind |-> "object", domains |-> _listDomains(config)], FALSE)))

_listFeaturesTool(config, domain) ==
  LET features == _listFeaturesOfDomain(config, domain)
  IN commonMcpExecute(Async(
       IF isErrorObject(features)
         THEN Returned(features)
         ELSE createMcpResponse([kind |-> "object", features |-> features], FALSE)))

\* The guard with the isFeatureHiddenFunc disjunct left out.
featureNotFoundNoFeatureCheck(config, domain, featureName) ==
  LET hiddenPaths == _getHiddenPaths(config)
  IN Or(Bool(EntryType(domain, featureName) = "undefined"),
        Or(Bool(doesDomainNotExist(domain)),
           isDomainHidden(hiddenPaths, config, domain)))

\* The guard shared by describe_feature and execute_feature.
featureNotFound(config, domain, featureName) ==
  LET hiddenPaths == _getHiddenPaths(config)
  IN Or(Bool(EntryType(domain, featureName) = "undefined"),
        Or(Bool(doesDomainNotExist(domain)),
           Or(isDomainHidden(hiddenPaths, config, domain),
              isFeatureHidden(hiddenPaths, config, domain, featureName))))

\* nilAnnotatedFunctionToOpenApi / createOpenApiForNonNilAnnotatedFunction
FeatureOpenApi(domain, featureName) ==
  [kind |-> "object", name |-> featureName,
   annotated |-> FeatureDescription(domain, featureName) # ""]

_describeFeatureTool(config, domain, featureName) ==
  commonMcpExecute(Async(
    IF featureNotFound(config, domain, featureName) = "true"
      THEN Returned(createFeatureNotFoundError)
      ELSE createMcpResponse(FeatureOpenApi(domain, featureName), FALSE)))

\* What a feature function does when it is called.
FeatureBehaviours == {"resolves", "resolvesError", "rejectsErrorObject", "rejects", "throws"}
BusinessError == createErrorObject("INVOICE_REJECTED", "Invoice rejected", Undefined)
FeatureCall(domain, featureName, behaviour) ==
  CASE behaviour = "resolves" ->
         Resolved([kind |-> "object", done |-> domain \o "." \o featureName])
    [] behaviour = "resolvesError" -> Resolved(BusinessError)
    [] behaviour = "rejectsErrorObject" -> Rejected(BusinessError)
    [] behaviour = "rejects" -> Rejected(ErrorOf("feature failed"))
    [] behaviour = "throws" -> Thrown(ErrorOf("feature threw"))

\* await feature(input.args, input.crossLayerProps).catch(e => ...)
executeFeatureAwait(featureCall) ==
  CASE featureCall.status = "resolved" -> Returned(featureCall.value)
    [] featureCall.status = "rejected" ->
         Returned(IF isErrorObject(featureCall.value)
                    THEN featureCall.value
                    ELSE createErrorObject("UNCAUGHT_EXCEPTION", UncaughtMessage,
                                           featureCall.value))
    [] featureCall.status = "thrown" -> featureCall
    [] OTHER -> Thrown(TypeError("feature(...).catch is not a function"))

_executeFeatureTool(config, domain, featureName, behaviour) ==
  commonMcpExecute(Async(
    IF featureNotFound(config, domain, featureName) = "true"
      THEN Returned(createFeatureNotFoundError)
      ELSE IF EntryType(domain, featureName) # "function"
        THEN Thrown(TypeError("feature is not a function"))
        ELSE LET result == executeFeatureAwait(FeatureCall(domain, featureName, behaviour))
             IN IF result.status = "thrown"
                  THEN result
                  ELSE createMcpResponse(result.value, FALSE)))

\* The registry functions execute_feature calls on the way.
executeFeatureInvokes(config, domain, featureName) ==
  IF /\ featureNotFound(config, domain, featureName) # "true"
     /\ EntryType(domain, featureName) = "function"
    THEN {<<"feature", domain, featureName>>}
    ELSE {}

---------------------------------------------------------------------------
(* models.ts: list_models, describe_model and the six model CRUD tools.    *)
(* create() builds its predicates from hiddenPaths alone: isDomainHidden(  *)
(* hiddenPaths), areAllModelsHidden(hiddenPaths), isModelHidden(           *)
(* hiddenPaths); the config parameter of each is undefined.                *)

modelsHiddenPaths(config) == BuiltInHiddenPaths \cup config.hiddenPaths

\* defaultModelTypeParser(modelType) of functional-models-orm-mcp splits
\* "namespace/PluralName"; a modelType is kept here as that pair.
defaultModelTypeParser(modelType) ==
  [namespace |-> modelType[1], pluralName |-> modelType[2]]

\* Turns a guard result and the rest of the handler into the handler's outcome.
Guarded(guard, whenTrue, whenFalse) ==
  CASE guard = "TypeError" -> Thrown(ConfigTypeError)
    [] guard = "true" -> Returned(whenTrue)
    [] OTHER -> whenFalse

\* context.features[domain].cruds[pluralName]: "TypeError" without cruds.
modelLookup(domain, pluralName) ==
  IF ~hasCruds(domain) THEN "TypeError"
  ELSE Bool(pluralName \notin Range(Models(domain)))

\* !model || isModelHiddenFunc(domain, pluralName) || areAllModelsHiddenFunc(domain)
modelNotFound(config, domain, pluralName) ==
  LET hiddenPaths == modelsHiddenPaths(config)
  IN Or(modelLookup(domain, pluralName),
        Or(isModelHidden(hiddenPaths, NoConfig, domain, pluralName),
           areAllModelsHidden(hiddenPaths, NoConfig, domain)))

\* doesDomainNotExistFunc(domain) || isDomainHiddenFunc(domain)
modelDomainNotFound(config, domain) ==
  Or(Bool(doesDomainNotExist(domain)),
     isDomainHidden(modelsHiddenPaths(config), NoConfig, domain))

\* The reduce of listModels over Object.entries(models).
listModelsReduce(config, domain) ==
  LET hiddenPaths == modelsHiddenPaths(config)
      hidden(modelName) == isModelHidden(hiddenPaths, NoConfig, domain, modelName)
      listed(modelName) == hidden(modelName) = "false"
      kept == SelectSeq(Models(domain), listed)
  IN IF \E modelName \in Range(Models(domain)) : hidden(modelName) = "TypeError"
       THEN Thrown(ConfigTypeError)
       ELSE createMcpResponse(
              Arr([i \in 1..Len(kept) |->
                     WithDescription([modelType |-> ModelTypeName(domain, kept[i])],
                                     ModelDescription(domain, kept[i]))]),
              FALSE)

listModels(config, domain) ==
  LET hiddenPaths == modelsHiddenPaths(config)
      guard == Or(modelDomainNotFound(config, domain),
                  areAllModelsHidden(hiddenPaths, NoConfig, domain))
  IN commonMcpExecute(Async(
       Guarded(guard, createDomainNotFoundError,
         IF ~hasCruds(domain)
           THEN createMcpResponse(createModelsNotFoundError, FALSE)
           ELSE listModelsReduce(config, domain))))

\* modelToOpenApi(model.getModel())
ModelOpenApi(domain, pluralName) ==
  [kind |-> "object", title |-> ModelTypeName(domain, pluralName)]

describe(config, domain, modelType) ==
  LET parsed == defaultModelTypeParser(modelType)
  IN commonMcpExecute(Async(
       Guarded(modelDomainNotFound(config, domain), createDomainNotFoundError,
         IF parsed.pluralName = "" \/ parsed.namespace = ""
           THEN Returned(createModelNotFoundError)
           ELSE Guarded(modelNotFound(config, domain, parsed.pluralName),
                  createModelNotFoundError,
                  createMcpResponse(ModelOpenApi(domain, parsed.pluralName), FALSE)))))

describeInvokes(config, domain, modelType) ==
  LET parsed == defaultModelTypeParser(modelType)
  IN IF /\ modelDomainNotFound(config, domain) = "false"
        /\ parsed.pluralName # "" /\ parsed.namespace # ""
        /\ modelNotFound(config, domain, parsed.pluralName) = "false"
       THEN {<<"model", domain, parsed.pluralName>>}
       ELSE {}

\* What the model layer does when a CRUD function is called.
ModelOperations == {"save", "retrieve", "delete", "search", "bulkInsert", "bulkDelete"}
\* What the model's datastore does: "notStored" is a retrieve of an id the
\* store does not hold (never saved, or deleted since).
ModelBehaviours == {"succeeds", "notStored", "validationError", "fails"}
ValidationError(modelName) ==
  [kind |-> "ValidationError", message |-> "Validation failed",
   modelName |-> modelName, keysToErrors |-> [title |-> <<"required">>]]

\* save / retrieve / delete / search / bulkInsert / bulkDelete: the function
\* _createMcpModelFunc is given, run on (input, model).
modelFunc(operation, modelName, behaviour) ==
  CASE behaviour = "fails" ->
         IF operation = "save"
           \* save catches what model.save rejects with and returns an error object
           THEN Resolved(createErrorObject("UNCAUGHT_EXCEPTION", UncaughtMessage,
                                           ErrorOf("datastore down")))
           ELSE Rejected(ErrorOf("datastore down"))
    [] behaviour = "validationError" ->
         IF operation = "save"
           THEN Resolved(createErrorObject("VALIDATION_ERROR", "Validation Error",
                                           ErrorOf("Validation failed")))
           ELSE Rejected(ValidationError(modelName))
    [] operation = "retrieve" /\ behaviour = "notStored" ->
         \* if (!result) return createModelNotFoundError()
         Resolved(createModelNotFoundError)
    [] operation \in {"save", "retrieve"} ->
         Resolved([kind |-> "object", id |-> "a", model |-> modelName])
    [] operation = "search" ->
         Resolved([kind |-> "object", instances |-> Arr(<<>>), page |-> Undefined])
    [] OTHER -> Resolved(Null)

\* await modelFunc(input, model.getModel()).catch(e => ...)
modelFuncAwait(funcOutcome) ==
  CASE funcOutcome.status = "resolved" -> funcOutcome.value
    [] funcOutcome.value.kind = "ValidationError" ->
         [kind |-> "object",
          error |-> [code |-> "VALIDATION_ERROR", message |-> "Validation Error",
                     details |-> [keysToErrors |-> funcOutcome.value.keysToErrors,
                                  modelName |-> funcOutcome.value.modelName]]]
    [] OTHER -> createErrorObject("UNCAUGHT_EXCEPTION", UncaughtMessage,
                                  funcOutcome.value)

_createMcpModelFunc(config, operation, modelType, behaviour) ==
  LET parsed == defaultModelTypeParser(modelType)
      namespace == parsed.namespace
      pluralName == parsed.pluralName
      result == modelFuncAwait(modelFunc(operation, pluralName, behaviour))
  IN commonMcpExecute(Async(
       Guarded(modelDomainNotFound(config, namespace), createDomainNotFoundError,
         IF pluralName = ""
           THEN Returned(createModelNotFoundError)
           ELSE Guarded(modelNotFound(config, namespace, pluralName),
                  createModelNotFoundError,
                  IF isErrorObject(result)
                    THEN createMcpResponse(result, TRUE)
                    ELSE createMcpResponse(result, FALSE)))))

modelFuncInvokes(config, operation, modelType) ==
  LET parsed == defaultModelTypeParser(modelType)
  IN IF /\ modelDomainNotFound(config, parsed.namespace) = "false"
        /\ parsed.pluralName # ""
        /\ modelNotFound(config, parsed.namespace, parsed.pluralName) = "false"
       THEN {<<"model", parsed.namespace, parsed.pluralName>>}
       ELSE {}

---------------------------------------------------------------------------
(* internal-libs.ts: the cross layer props a tool call is given.           *)
(* Objects are records; a key that is absent is not in the DOMAIN.         *)

EmptyObject == <<>>
Has(object, key) == key \in DOMAIN object
Without(object, key) == [k \in DOMAIN object \ {key} |-> object[k]]
\* object?.[key] || {}
GetOrEmpty(object, key) == IF Has(object, key) THEN object[key] ELSE EmptyObject

RECURSIVE JoinWith(_, _)
\* value.join(separator)
JoinWith(items, separator) ==
  IF Len(items) = 0 THEN ""
  ELSE IF Len(items) = 1 THEN items[1]
  ELSE items[1] \o separator \o JoinWith(Tail(items), separator)

\* The reduce over Object.entries(sdkHeaders): arrays joined with ", ",
\* other defined values through String(value), undefined ones dropped.
buildRequestInfoHeaders(sdkHeaders) ==
  [key \in {k \in DOMAIN sdkHeaders : sdkHeaders[k] # Undefined} |->
     IF sdkHeaders[key].kind = "array"
       THEN JoinWith(sdkHeaders[key].items, ", ")
       ELSE sdkHeaders[key].s]

buildRequestInfoFromSdkExtra(extra) ==
  [headers |-> buildRequestInfoHeaders(GetOrEmpty(GetOrEmpty(extra, "requestInfo"), "headers")),
   body |-> EmptyObject,
   query |-> EmptyObject,
   params |-> EmptyObject,
   path |-> "",
   method |-> "",
   url |-> "",
   protocol |-> ""]

\* Undefined when the extra carries no authInfo.
buildAuthInfoFromSdkExtra(extra) ==
  IF ~Has(extra, "authInfo") THEN Undefined
  ELSE LET sdkAuthInfo == extra.authInfo
           optional == {"expiresAt", "resource", "extra"} \cap DOMAIN sdkAuthInfo
       IN [token |-> sdkAuthInfo.token,
           clientId |-> sdkAuthInfo.clientId,
           scopes |-> IF Has(sdkAuthInfo, "scopes") THEN sdkAuthInfo.scopes ELSE <<>>]
          @@ [k \in optional |-> sdkAuthInfo[k]]

\* How combineCrossLayerProps of @node-in-layers/core joins two props: the
\* later object's keys replace the earlier one's ("shallow"), or objects
\* are merged key by key and arrays index by index as lodash merge does
\* ("deep"). The repository pins neither; both are modelled.
CombineModes == {"shallow", "deep"}

\* lodash merge of two arrays: index by index, the later one first.
mergeArrays(a, b) ==
  [i \in 1..(IF Len(a) > Len(b) THEN Len(a) ELSE Len(b)) |->
     IF i <= Len(b) THEN b[i] ELSE a[i]]

\* lodash merge of two objects whose values are texts, maps of texts
\* (ObjectKeys) or arrays (ArrayKeys).
ObjectKeys == {"headers", "body", "query", "params", "extra"}
ArrayKeys == {"scopes"}
mergeObjects(a, b) ==
  [key \in DOMAIN a \cup DOMAIN b |->
     IF key \notin DOMAIN b THEN a[key]
     ELSE IF key \notin DOMAIN a THEN b[key]
     ELSE IF key \in ObjectKeys THEN b[key] @@ a[key]
     ELSE IF key \in ArrayKeys THEN mergeArrays(a[key], b[key])
     ELSE b[key]]

\* logging.ids of both sides, the earlier side's first.
combineLoggingIds(a, b) ==
  GetOrEmpty(GetOrEmpty(a, "logging"), "ids") \o GetOrEmpty(GetOrEmpty(b, "logging"), "ids")

combineCrossLayerProps(mode, a, b) ==
  LET ids == combineLoggingIds(a, b)
      keys == (DOMAIN a \cup DOMAIN b) \ {"logging"}
      combined ==
        [key \in keys |->
           IF key \notin DOMAIN b THEN a[key]
           ELSE IF key \notin DOMAIN a \/ mode = "shallow" THEN b[key]
           ELSE mergeObjects(a[key], b[key])]
  IN IF Has(a, "logging") \/ Has(b, "logging")
       THEN combined @@ [logging |-> [ids |-> ids]]
       ELSE combined

\* createCrossLayerProps(logger, props): the props with the logger's ids
\* appended to logging.ids.
createCrossLayerProps(loggerIds, props) ==
  Without(props, "logging")
    @@ [logging |-> [ids |-> GetOrEmpty(GetOrEmpty(props, "logging"), "ids") \o loggerIds]]

\* What the transport adds: requestInfo always, authInfo when it has one.
transportProps(extra) ==
  LET authInfo == buildAuthInfoFromSdkExtra(extra)
      requestInfo == buildRequestInfoFromSdkExtra(extra)
  IN IF authInfo # Undefined
       THEN [requestInfo |-> requestInfo, authInfo |-> authInfo]
       ELSE [requestInfo |-> requestInfo]

\* The merge with input.args.crossLayerProps taken before input.crossLayerProps.
mergedCrossLayerPropsArgsFirst(mode, input, extra, loggerIds) ==
  createCrossLayerProps(loggerIds,
    combineCrossLayerProps(mode,
      combineCrossLayerProps(mode,
        GetOrEmpty(GetOrEmpty(input, "args"), "crossLayerProps"),
        GetOrEmpty(input, "crossLayerProps")),
      transportProps(extra)))

mergedCrossLayerProps(mode, input, extra, loggerIds) ==
  createCrossLayerProps(loggerIds,
    combineCrossLayerProps(mode,
      combineCrossLayerProps(mode,
        GetOrEmpty(input, "crossLayerProps"),
        GetOrEmpty(GetOrEmpty(input, "args"), "crossLayerProps")),
      transportProps(extra)))

\* buildMergedToolInput that spreads input.args as it came.
buildMergedToolInputRawArgs(mode, input, extra, loggerIds) ==
  LET merged == mergedCrossLayerProps(mode, input, extra, loggerIds)
  IN [mergedInput |-> Without(input, "crossLayerProps") @@ [crossLayerProps |-> merged],
      mergedCrossLayerProps |-> merged]

buildMergedToolInput(mode, input, extra, loggerIds) ==
  LET merged == mergedCrossLayerProps(mode, input, extra, loggerIds)
      withProps == Without(input, "crossLayerProps") @@ [crossLayerProps |-> merged]
      mergedInput ==
        IF Has(input, "args")
          THEN [args |-> Without(input.args, "crossLayerProps")] @@ withProps
          ELSE withProps
  IN [mergedInput |-> mergedInput, mergedCrossLayerProps |-> merged]

\* The most calls a context is forwarded through, each call merging the
\* props it was given with its own logger's id.
MaxForwards == 3

RECURSIVE forwardedCrossLayerProps(_, _, _)
\* The merged props of the n-th call of a chain in which every call hands
\* the props it received to the next call as crossLayerProps.
forwardedCrossLayerProps(mode, extra, n) ==
  IF n = 0 THEN EmptyObject
  ELSE mergedCrossLayerProps(mode,
         [crossLayerProps |-> forwardedCrossLayerProps(mode, extra, n - 1)],
         extra, <<[requestId |-> "request-" \o ToString(n)]>>)

---------------------------------------------------------------------------
(* internal-libs.ts: the tools handed to the transport. _buildAllTools     *)
(* maps _wrapToolsWithLogger over the built-in tools, the model tools and  *)
(* the tools added with addTool / addAnnotatedFunction.                    *)

AnnotatedUncaughtMessage == "An uncaught exception occurred while executing the function."

\* What an annotated function does when called.
AnnotatedBehaviours ==
  {"resolves", "resolvesVoid", "resolvesCircular", "rejects", "rejectsErrorObject", "throws"}
AnnotatedCall(behaviour) ==
  CASE behaviour = "resolves" -> Resolved([kind |-> "object", total |-> "3"])
    [] behaviour = "resolvesVoid" -> Resolved(Undefined)
    [] behaviour = "resolvesCircular" -> Resolved(Circular)
    [] behaviour = "rejects" -> Rejected(ErrorOf("annotated failed"))
    [] behaviour = "rejectsErrorObject" -> Rejected(BusinessError)
    [] behaviour = "throws" -> Thrown(ErrorOf("annotated threw"))

\* _createExecute(annotatedFunction)(input, crossLayerProps):
\* Promise.resolve().then(call).catch(toErrorObject).then(createMcpResponse)
_createExecute(functionCall) ==
  LET caught ==
        IF functionCall.status \in {"resolved", "returned"}
          THEN functionCall.value
          ELSE IF isErrorObject(functionCall.value)
            THEN functionCall.value
            ELSE createErrorObject("UNCAUGHT_EXCEPTION", AnnotatedUncaughtMessage,
                                   functionCall.value)
  IN Async(createMcpResponse(caught, FALSE))

\* What the execute of a tool given to addTool does when called.
CustomBehaviours ==
  {"resolvesEnvelope", "resolvesRawObject", "resolvesPlainText", "rejects", "throws"}
\* The README's example tool: execute: async (input) => ({ result: input.id })
RawObject == [kind |-> "object", result |-> "42"]
\* An envelope whose text is no JSON.
PlainTextEnvelope ==
  [kind |-> "object", content |-> <<[type |-> "text", text |-> [plain |-> "done"]]>>]
CustomExecute(behaviour) ==
  CASE behaviour = "resolvesEnvelope" -> Async(createMcpResponse(RawObject, FALSE))
    [] behaviour = "resolvesRawObject" -> Resolved(RawObject)
    [] behaviour = "resolvesPlainText" -> Resolved(PlainTextEnvelope)
    [] behaviour = "rejects" -> Rejected(ErrorOf("custom failed"))
    [] behaviour = "throws" -> Thrown(ErrorOf("custom threw"))

\* The tools of the registry that are exercised, with what their handler does.
ToolCases ==
  ({"execute_feature"} \X FeatureBehaviours)
    \cup ({"model_save"} \X ModelBehaviours)
    \cup ({"addTool"} \X CustomBehaviours)
    \cup ({"addAnnotatedFunction"} \X AnnotatedBehaviours)

\* tool.execute(mergedInput, mergedCrossLayerProps) of such a tool.
ToolExecute(config, toolCase) ==
  CASE toolCase[1] = "execute_feature" ->
         _executeFeatureTool(config, "billing", "createInvoice", toolCase[2])
    [] toolCase[1] = "model_save" ->
         _createMcpModelFunc(config, "save", <<"billing", "Invoices">>, toolCase[2])
    [] toolCase[1] = "addTool" -> CustomExecute(toolCase[2])
    [] toolCase[1] = "addAnnotatedFunction" -> _createExecute(AnnotatedCall(toolCase[2]))

\* config.logging: no callbacks, callbacks that return data, a
\* requestLogGetData that throws, a responseLogGetData that throws.
LoggingConfigs == {"none", "getData", "requestLogGetDataThrows", "responseLogGetDataThrows"}

\* randomUUID() and the ids of the request's logger.
RequestId == "request-1"
LoggerIds == <<[requestId |-> RequestId]>>

\* get(result, 'content[0].text')
contentText(result) ==
  IF /\ result.kind = "object"
     /\ "content" \in DOMAIN result
     /\ Len(result.content) >= 1
     /\ "text" \in DOMAIN result.content[1]
    THEN result.content[1].text
    ELSE Undefined

\* const toShow = data ? JSON.parse(data) : result
toShow(result) ==
  LET data == contentText(result)
  IN IF data = Undefined THEN Returned(result)
     ELSE IF "json" \in DOMAIN data THEN Returned(JSONparse(data))
     ELSE Thrown(ErrorOf("Unexpected token in JSON"))

\* config.logging.requestLogLevel / responseLogLevel: the levels an
\* application sets, any subset of the two keys.
DEFAULT_RESPONSE_REQUEST_LOG_LEVEL == "info"
NoLogLevels == <<>>
LogLevelConfigs ==
  {NoLogLevels,
   [requestLogLevel |-> "debug"],
   [responseLogLevel |-> "warn"],
   [requestLogLevel |-> "debug", responseLogLevel |-> "warn"]}

\* const level = config.logging?.requestLogLevel || DEFAULT_RESPONSE_REQUEST_LOG_LEVEL
wrapperLogLevel(levels) ==
  IF Has(levels, "requestLogLevel")
    THEN levels.requestLogLevel
    ELSE DEFAULT_RESPONSE_REQUEST_LOG_LEVEL

\* The entries the wrapped execute writes with logger[level](message, ...):
\* 'Request received' once requestLogGetData has returned, 'Request Response'
\* once the tool resolved, its text parsed and responseLogGetData returned.
wrapperLogEntries(levels, logging, toolOutcome) ==
  LET level == wrapperLogLevel(levels)
      received == <<[level |-> level, message |-> "Request received"]>>
      response == <<[level |-> level, message |-> "Request Response"]>>
  IN IF logging = "requestLogGetDataThrows" THEN <<>>
     ELSE IF toolOutcome.status \in {"rejected", "thrown"} THEN received
     ELSE IF toShow(toolOutcome.value).status = "thrown" THEN received
     ELSE IF logging = "responseLogGetDataThrows" THEN received
     ELSE received \o response

\* The execute _wrapToolsWithLogger puts in place of tool.execute: what the
\* tool received (nothing when it was never called), what the logger was
\* given and what the caller gets.
_wrapToolsWithLogger(mode, levels, logging, toolOutcome, input, extra) ==
  LET merged == buildMergedToolInput(mode, input, extra, LoggerIds)
      shown == toShow(toolOutcome.value)
      result ==
        IF logging = "requestLogGetDataThrows"
          THEN Thrown(ErrorOf("requestLogGetData failed"))
        ELSE IF toolOutcome.status \in {"rejected", "thrown"}
          THEN Thrown(toolOutcome.value)
        ELSE IF shown.status = "thrown" THEN shown
        ELSE IF logging = "responseLogGetDataThrows"
          THEN Thrown(ErrorOf("responseLogGetData failed"))
        ELSE Returned(toolOutcome.value)
  IN [received |-> IF logging = "requestLogGetDataThrows" THEN EmptyObject ELSE merged,
      entries |-> wrapperLogEntries(levels, logging, toolOutcome),
      result |-> Async(result)]

\* What a client puts under crossLayerProps.
ClientProps ==
  {EmptyObject,
   [requestInfo |-> [headers |-> [a |-> "1", spoofed |-> "yes"],
                     body |-> [admin |-> "true"], path |-> "/claimed"]],
   [authInfo |-> [token |-> "forged", clientId |-> "mallory",
                  scopes |-> <<"admin", "write">>]],
   [logging |-> [ids |-> <<[traceId |-> "t-1"]>>]],
   [logging |-> [ids |-> <<[sessionId |-> "s-1"], [spanId |-> "s-2"]>>]]}

\* The tool inputs: props at the top level, nested in args, both or neither.
ToolInputs ==
  {[id |-> "42"]}
    \cup {[crossLayerProps |-> top] : top \in ClientProps}
    \cup {[args |-> [id |-> "42", crossLayerProps |-> inner]] : inner \in ClientProps}
    \cup {[crossLayerProps |-> top, args |-> [id |-> "42", crossLayerProps |-> inner]] :
            top \in ClientProps, inner \in ClientProps}

\* extra.requestInfo.headers as the SDK gives them.
SdkHeaders ==
  {[a |-> Str("2")],
   [a |-> Arr(<<"2", "3">>), b |-> Undefined]}
\* extra.authInfo as the SDK gives it.
SdkAuthInfos ==
  {[token |-> "t1", clientId |-> "c1"],
   [token |-> "t1", clientId |-> "c1", scopes |-> <<"read">>, expiresAt |-> "99"]}
\* The RequestHandlerExtra of a call: nothing over stdio, headers over HTTP,
\* authInfo when the client authenticated.
SdkExtras ==
  {EmptyObject}
    \cup {[requestInfo |-> [headers |-> h]] : h \in SdkHeaders}
    \cup {[requestInfo |-> [headers |-> h], authInfo |-> a] :
            h \in SdkHeaders, a \in SdkAuthInfos}

---------------------------------------------------------------------------
(* The tool calls a client can make.                                       *)

RequestDomains == RegisteredDomains \cup {"ghost"}
RequestFeatureNames == {"createInvoice", "ping", "cruds", "nope"}
RequestModelTypes ==
  {"billing", "internal", "ghost", ""} \X {"Invoices", "Payments", "Nope", ""}

NoCall == [tool |-> "none"]
NoOutcome == [status |-> "none"]

NoNested == [hiddenPaths |-> {}, path |-> <<>>, hidden |-> FALSE]
\* No wrapped call in progress; combine is the core library's merge mode.
NoWrapped == [combine |-> "shallow", levels |-> NoLogLevels, tool |-> "none"]
\* No request is being answered; an app that was not built.
NoResponse == [status |-> 0]
NoHttp == [stateful |-> FALSE, transports |-> <<>>, servers |-> <<>>, response |-> NoResponse]

Init ==
  /\ cfg \in Configs
  /\ call = NoCall
  /\ outcome = NoOutcome
  /\ invoked = {}
  /\ nested = NoNested
  /\ tools = <<>>
  /\ http = NoHttp
  /\ wrapped = NoWrapped

ListDomains ==
  /\ call = NoCall
  /\ call' = [tool |-> "list_domains"]
  /\ outcome' = _listDomainsTool(cfg)
  /\ invoked' = {}
  /\ UNCHANGED <<cfg, nested, wrapped, tools, http>>

ListFeatures ==
  \E domain \in RequestDomains :
    /\ call = NoCall
    /\ call' = [tool |-> "list_features", domain |-> domain]
    /\ outcome' = _listFeaturesTool(cfg, domain)
    /\ invoked' = {}
    /\ UNCHANGED <<cfg, nested, wrapped, tools, http>>

DescribeFeature ==
  \E domain \in RequestDomains, featureName \in RequestFeatureNames :
    /\ call = NoCall
    /\ call' = [tool |-> "describe_feature", domain |-> domain,
                featureName |-> featureName]
    /\ outcome' = _describeFeatureTool(cfg, domain, featureName)
    /\ invoked' = {}
    /\ UNCHANGED <<cfg, nested, wrapped, tools, http>>

ExecuteFeature ==
  \E domain \in RequestDomains, featureName \in RequestFeatureNames,
     behaviour \in FeatureBehaviours :
    /\ call = NoCall
    /\ call' = [tool |-> "execute_feature", domain |-> domain,
                featureName |-> featureName, behaviour |-> behaviour]
    /\ outcome' = _executeFeatureTool(cfg, domain, featureName, behaviour)
    /\ invoked' = executeFeatureInvokes(cfg, domain, featureName)
    /\ UNCHANGED <<cfg, nested, wrapped, tools, http>>

\* _buildAllTools registers the model tools unless hideComponents.allModels.
modelToolsRegistered(config) == ~config.hideComponents.allModels

ListModels ==
  \E domain \in RequestDomains :
    /\ call = NoCall
    /\ modelToolsRegistered(cfg)
    /\ call' = [tool |-> "list_models", domain |-> domain]
    /\ outcome' = listModels(cfg, domain)
    /\ invoked' = {}
    /\ UNCHANGED <<cfg, nested, wrapped, tools, http>>

DescribeModel ==
  \E domain \in RequestDomains, modelType \in RequestModelTypes :
    /\ call = NoCall
    /\ modelToolsRegistered(cfg)
    /\ modelType[1] \in {domain, ""}
    /\ call' = [tool |-> "describe_model", domain |-> domain, modelType |-> modelType]
    /\ outcome' = describe(cfg, domain, modelType)
    /\ invoked' = describeInvokes(cfg, domain, modelType)
    /\ UNCHANGED <<cfg, nested, wrapped, tools, http>>

ModelCrud ==
  \E operation \in ModelOperations, modelType \in RequestModelTypes,
     behaviour \in ModelBehaviours :
    /\ call = NoCall
    /\ modelToolsRegistered(cfg)
    /\ call' = [tool |-> "model_" \o operation, domain |-> modelType[1],
                modelType |-> modelType, behaviour |-> behaviour]
    /\ outcome' = _createMcpModelFunc(cfg, operation, modelType, behaviour)
    /\ invoked' = modelFuncInvokes(cfg, operation, modelType)
    /\ UNCHANGED <<cfg, nested, wrapped, tools, http>>

\* The result has gone back to the client; the server is idle again.
Respond ==
  /\ call # NoCall
  /\ call' = NoCall
  /\ outcome' = NoOutcome
  /\ invoked' = {}
  /\ UNCHANGED <<cfg, nested, wrapped, tools, http>>

Next ==
  \/ ListDomains
  \/ ListFeatures
  \/ DescribeFeature
  \/ ExecuteFeature
  \/ ListModels
  \/ DescribeModel
  \/ ModelCrud
  \/ Respond

Spec == Init /\ [][Next]_vars

---------------------------------------------------------------------------
(* mcp.ts: isHidden of the nested feature tools                            *)
(* (_createNestedFeatureTools), built from options.hiddenPaths.            *)

RECURSIVE JoinDots(_)
\* segments.join('.')
JoinDots(segments) ==
  IF Len(segments) = 0 THEN ""
  ELSE IF Len(segments) = 1 THEN segments[1]
  ELSE segments[1] \o "." \o JoinDots(Tail(segments))

\* One step of the reduce: (state, segment) => state
isHiddenStep(hiddenPaths, state, segment) ==
  IF state.hidden
    THEN state
    ELSE LET segments == Append(state.segments, segment)
             candidate == JoinDots(segments)
         IN [hidden |-> state.hidden \/ candidate \in hiddenPaths,
             segments |-> segments]

RECURSIVE isHiddenReduce(_, _, _)
isHiddenReduce(hiddenPaths, path, state) ==
  IF Len(path) = 0 THEN state
  ELSE isHiddenReduce(hiddenPaths, Tail(path),
                      isHiddenStep(hiddenPaths, state, Head(path)))

\* A slip the reduce guards against: only the full path is looked up.
isHiddenExactOnly(hiddenPaths, path) == JoinDots(path) \in hiddenPaths

isHidden(hiddenPaths, path) ==
  isHiddenReduce(hiddenPaths, path, [hidden |-> FALSE, segments |-> <<>>]).hidden

NestedSegments == {"billing", "cruds", "Invoices", "save", "createInvoice"}
NestedCandidates ==
  {"billing", "billing.createInvoice", "billing.cruds", "billing.cruds.Invoices",
   "billing.cruds.Invoices.save"}
NestedOptions == {H \in SUBSET NestedCandidates : Cardinality(H) <= MaxRules}
NestedPaths == UNION {[1..n -> NestedSegments] : n \in 1..MaxPathLen}

InitHidden ==
  /\ cfg = MkConfig({}, FALSE)
  /\ call = NoCall
  /\ outcome = NoOutcome
  /\ invoked = {}
  /\ \E hiddenPaths \in NestedOptions :
       nested = [hiddenPaths |-> hiddenPaths, path |-> <<>>, hidden |-> FALSE]
  /\ wrapped = NoWrapped
  /\ tools = <<>>
  /\ http = NoHttp

\* A nested tool asks isHidden about a path.
EvaluateIsHidden ==
  \E path \in NestedPaths :
    /\ nested.path = <<>>
    /\ nested' = [nested EXCEPT !.path = path,
                                !.hidden = isHidden(nested.hiddenPaths, path)]
    /\ UNCHANGED <<cfg, call, outcome, invoked, wrapped, tools, http>>

\* The nested tool has answered; the next call starts afresh.
NestedDone ==
  /\ nested.path # <<>>
  /\ nested' = [nested EXCEPT !.path = <<>>, !.hidden = FALSE]
  /\ UNCHANGED <<cfg, call, outcome, invoked, wrapped, tools, http>>

NextHidden ==
  \/ EvaluateIsHidden
  \/ NestedDone

SpecHidden == InitHidden /\ [][NextHidden]_vars

---------------------------------------------------------------------------
(* Calls through the registry the transport is given, and commonMcpExecute *)
(* on its own.                                                             *)

\* What a function handed to commonMcpExecute does when called.
FuncBehaviours ==
  {"resolvesObject", "resolvesErrorObject", "resolvesEnvelope",
   "resolvesErrorEnvelope", "resolvesArray", "resolvesString", "resolvesNull",
   "resolvesUndefined", "resolvesCircular", "rejects", "throws", "returnsNoPromise"}
FuncErrors == [rejects |-> "Test exception", throws |-> "thrown before any promise"]
FuncCall(behaviour) ==
  CASE behaviour = "resolvesObject" -> Resolved(RawObject)
    [] behaviour = "resolvesErrorObject" -> Resolved(BusinessError)
    [] behaviour = "resolvesEnvelope" -> Resolved(PlainTextEnvelope)
    [] behaviour = "resolvesErrorEnvelope" ->
         Resolved(createMcpResponse(BusinessError, TRUE).value)
    [] behaviour = "resolvesArray" -> Resolved(Arr(<<RawObject>>))
    [] behaviour = "resolvesString" -> Resolved(Str("done"))
    [] behaviour = "resolvesNull" -> Resolved(Null)
    [] behaviour = "resolvesUndefined" -> Resolved(Undefined)
    [] behaviour = "resolvesCircular" -> Resolved(Circular)
    [] behaviour = "rejects" -> Rejected(ErrorOf(FuncErrors.rejects))
    [] behaviour = "throws" -> Thrown(ErrorOf(FuncErrors.throws))
    [] behaviour = "returnsNoPromise" -> Returned(RawObject)

InitTools ==
  /\ cfg = MkConfig({}, FALSE)
  /\ call = NoCall
  /\ outcome = NoOutcome
  /\ invoked = {}
  /\ nested = NoNested
  /\ tools = <<>>
  /\ http = NoHttp
  /\ \E mode \in CombineModes :
       wrapped = [combine |-> mode, levels |-> NoLogLevels, tool |-> "none"]

\* The transport calls the wrapped execute of a registered tool.
WrappedToolCall ==
  \E toolCase \in ToolCases, logging \in LoggingConfigs,
     input \in ToolInputs, extra \in SdkExtras :
    /\ wrapped.tool = "none"
    /\ call = NoCall
    /\ LET done == _wrapToolsWithLogger(wrapped.combine, wrapped.levels, logging,
                                        ToolExecute(cfg, toolCase), input, extra)
       IN wrapped' = [combine |-> wrapped.combine,
                      levels |-> wrapped.levels,
                      entries |-> done.entries,
                      tool |-> toolCase[1],
                      behaviour |-> toolCase[2],
                      logging |-> logging,
                      input |-> input,
                      extra |-> extra,
                      received |-> done.received,
                      result |-> done.result]
    /\ UNCHANGED <<cfg, call, outcome, invoked, nested, tools, http>>

\* The transport has the result; the wrapper is idle again.
WrappedToolDone ==
  /\ wrapped.tool # "none"
  /\ wrapped' = [combine |-> wrapped.combine, levels |-> wrapped.levels, tool |-> "none"]
  /\ UNCHANGED <<cfg, call, outcome, invoked, nested, tools, http>>

\* commonMcpExecute(func)() for a func of each behaviour.
CommonMcpExecuteCall ==
  \E behaviour \in FuncBehaviours :
    /\ call = NoCall
    /\ wrapped.tool = "none"
    /\ call' = [tool |-> "commonMcpExecute", func |-> behaviour]
    /\ outcome' = commonMcpExecute(FuncCall(behaviour))
    /\ invoked' = {<<"func", behaviour>>}
    /\ UNCHANGED <<cfg, nested, wrapped, tools, http>>

\* The values createMcpResponse is handed: objects (an empty one, an error
\* object, an Error instance), an array, primitives, null and undefined.
ResponseValues ==
  {RawObject, [kind |-> "object"], BusinessError, ErrorOf("Test cause"), Circular,
   Arr(<<RawObject>>), Arr(<<>>), Str("done"), Str(""), Num(0), False,
   Null, Undefined}

\* createMcpResponse(result, opts) called directly.
CreateMcpResponseCall ==
  \E result \in ResponseValues, isError \in BOOLEAN :
    /\ call = NoCall
    /\ wrapped.tool = "none"
    /\ call' = [tool |-> "createMcpResponse", result |-> result, isError |-> isError]
    /\ outcome' = createMcpResponse(result, isError)
    /\ invoked' = {}
    /\ UNCHANGED <<cfg, nested, wrapped, tools, http>>

NextTools ==
  \/ WrappedToolCall
  \/ WrappedToolDone
  \/ CommonMcpExecuteCall
  \/ CreateMcpResponseCall
  \/ Respond

SpecTools == InitTools /\ [][NextTools]_vars

\* The same server under each setting of the two log levels.
InitLogging ==
  /\ cfg = MkConfig({}, FALSE)
  /\ call = NoCall
  /\ outcome = NoOutcome
  /\ invoked = {}
  /\ nested = NoNested
  /\ tools = <<>>
  /\ http = NoHttp
  /\ \E levels \in LogLevelConfigs :
       wrapped = [combine |-> "shallow", levels |-> levels, tool |-> "none"]

SpecLogging == InitLogging /\ [][NextTools]_vars

---------------------------------------------------------------------------
(* internal-libs.ts: the tools array, addTool, addAnnotatedFunction and    *)
(* _buildAllTools. A tool is known by its name.                            *)

\* The most tools an application adds.
MaxTools == 3

\* config.startHere: absent, without a name, with a name.
StartHereConfigs == {"absent", "descriptionOnly", "named"}
WithStartHere(config, startHere) ==
  CASE startHere = "absent" -> config
    [] startHere = "descriptionOnly" ->
         config @@ [startHere |-> [description |-> "Read this first"]]
    [] startHere = "named" ->
         config @@ [startHere |-> [name |-> "WELCOME"]]

\* startHereData.name ?? 'START_HERE'
startHereMcpTool(config) ==
  LET startHereData == GetOrEmpty(config, "startHere")
  IN IF Has(startHereData, "name") THEN startHereData.name ELSE "START_HERE"

\* listModels, describe and the tools createMcpToolSave ... BulkDelete name.
ModelToolNames ==
  <<"list_models", "describe_model", "model_save", "model_retrieve",
    "model_delete", "model_search", "model_bulk_insert", "model_bulk_delete">>

\* _buildAllTools that builds the model tools whatever allModels says.
_buildAllToolsModelsAlways(config, registered) ==
  <<startHereMcpTool(config), "list_domains", "list_features",
    "describe_feature", "execute_feature">> \o ModelToolNames \o registered

_buildAllTools(config, registered) ==
  LET modelTools == IF config.hideComponents.allModels THEN <<>> ELSE ModelToolNames
  IN <<startHereMcpTool(config), "list_domains", "list_features",
       "describe_feature", "execute_feature">> \o modelTools \o registered

\* Names of the tools an application adds itself, and of its annotated
\* functions (options.name || annotatedFunction.functionName).
CustomToolNames == {"get_weather", "get_time"}
AnnotatedFunctionNames == {"createInvoice"}

InitRegistry ==
  /\ \E allModels \in BOOLEAN, startHere \in StartHereConfigs :
       cfg = WithStartHere(MkConfig({}, allModels), startHere)
  /\ call = NoCall
  /\ outcome = NoOutcome
  /\ invoked = {}
  /\ nested = NoNested
  /\ wrapped = NoWrapped
  /\ tools = <<>>
  /\ http = NoHttp

AddTool ==
  \E name \in CustomToolNames :
    /\ call = NoCall
    /\ Len(tools) < MaxTools
    /\ tools' = Append(tools, name)
    /\ UNCHANGED <<cfg, call, outcome, invoked, nested, wrapped, http>>

AddAnnotatedFunction ==
  \E name \in AnnotatedFunctionNames :
    /\ call = NoCall
    /\ Len(tools) < MaxTools
    /\ tools' = Append(tools, name)
    /\ UNCHANGED <<cfg, call, outcome, invoked, nested, wrapped, http>>

\* The server is built: _buildAllTools(systemContext).
BuildAllTools ==
  /\ call = NoCall
  /\ call' = [tool |-> "_buildAllTools"]
  /\ outcome' = Returned(_buildAllTools(cfg, tools))
  /\ UNCHANGED <<cfg, invoked, nested, wrapped, tools, http>>

NextRegistry ==
  \/ AddTool
  \/ AddAnnotatedFunction
  \/ BuildAllTools
  \/ Respond

SpecRegistry == InitRegistry /\ [][NextRegistry]_vars

---------------------------------------------------------------------------
(* internal-libs.ts: the HTTP app _buildHttpApp routes requests through,   *)
(* stateless (a server per request) or stateful (a server per session).    *)

MaxSessions == 2

BAD_REQUEST_STATUS == 400
UNHANDLED_REQUEST_STATUS == 405

\* randomUUID() of the n-th transport: ids never repeat.
SessionIdOf(n) == "session-" \o ToString(n)

\* req.headers: no mcp-session-id header, an empty one, a session id (of a
\* session the app has made, has closed, or has not made yet).
NoHeaders == <<>>
RequestHeaders ==
  {NoHeaders}
    \cup {[mcpSessionId |-> id] :
            id \in {""} \cup {SessionIdOf(n) : n \in 1..MaxSessions}}
\* const sessionId = req.headers['mcp-session-id'], tested for truthiness
hasSessionId(headers) == Has(headers, "mcpSessionId") /\ headers.mcpSessionId # ""

\* req.body after bodyParser.json: JSON-RPC requests and a body that is none.
InitializeBody == [jsonrpc |-> "2.0", id |-> 1, method |-> "initialize"]
ToolsListBody == [jsonrpc |-> "2.0", id |-> 2, method |-> "tools/list"]
RequestBodies == {InitializeBody, ToolsListBody, <<>>}
\* isInitializeRequest that lets every body through.
isAnyRequest(body) == TRUE
isInitializeRequest(body) == Has(body, "method") /\ body.method = "initialize"
isToolsListRequest(body) == Has(body, "method") /\ body.method = "tools/list"

\* _buildMcpServer that registers the built-in tools only.
_buildMcpServerBuiltInsOnly(config, registered) ==
  [tools |-> _buildAllTools(config, <<>>)]
\* _buildMcpServer(systemContext): every tool _buildAllTools returns at this
\* moment is registered with the new server.
_buildMcpServer(config, registered) ==
  [tools |-> _buildAllTools(config, registered)]

\* transport.onclose that leaves the session table as it is.
oncloseKeepsEntry(transports, sessionId) == transports
\* transport.onclose: if (transport.sessionId) delete transports[transport.sessionId]
onclose(transports, sessionId) ==
  IF sessionId # ""
    THEN [id \in DOMAIN transports \ {sessionId} |-> transports[id]]
    ELSE transports

\* onsessioninitialized: transports[newSessionId] = transport
onsessioninitialized(transports, newSessionId, transport) ==
  (newSessionId :> transport) @@ transports

\* res.status(400).json({ jsonrpc, error: { code: -32000, ... }, id: null })
BadRequestNoSession ==
  [jsonrpc |-> "2.0",
   error |-> [code |-> -32000, message |-> "Bad Request: No valid session ID provided"],
   id |-> Null]
MethodNotAllowed ==
  [jsonrpc |-> "2.0",
   error |-> [code |-> -32000, message |-> "Method not allowed."],
   id |-> Null]

\* What the handler wrote to res: the request it answers, the status, the
\* body, and the transport the request was handed to (0 for none) with the
\* state that transport was in.
Response(request, status, body, routedTo, routedState) ==
  [request |-> request, status |-> status, body |-> body,
   routedTo |-> routedTo, routedState |-> routedState]

\* transport.handleRequest(req, res, req.body) of a session's transport, as
\* the SDK transport answers: tools/list with the tools of its server, a
\* second initialize and a body that is no JSON-RPC with 400, GET with the
\* event stream, DELETE by ending the session.
transportHandleRequest(request, n, server) ==
  CASE request.method = "POST" /\ isToolsListRequest(request.body) ->
         Response(request, 200, [tools |-> server.tools], n, server.state)
    [] request.method = "POST" /\ ~isToolsListRequest(request.body) ->
         Response(request, BAD_REQUEST_STATUS, [sdk |-> "Invalid Request"], n, server.state)
    [] request.method = "GET" ->
         Response(request, 200, [sdk |-> "event stream"], n, server.state)
    [] request.method = "DELETE" ->
         Response(request, 200, [sdk |-> "session ended"], n, server.state)

InitHttp ==
  /\ cfg = MkConfig({}, FALSE)
  /\ call = NoCall
  /\ outcome = NoOutcome
  /\ invoked = {}
  /\ nested = NoNested
  /\ wrapped = NoWrapped
  /\ tools = <<>>
  /\ \E isStateful \in BOOLEAN :
       http = [stateful |-> isStateful, transports |-> <<>>, servers |-> <<>>,
               response |-> NoResponse]

\* handleStatefulRequest: POST on the MCP path of a stateful app. A known
\* session id hands the request to that session's transport; no session id
\* and an initialize body make a server and a transport, and the transport
\* either takes the request (generates the session id, calls
\* onsessioninitialized) or turns it down (headers the SDK transport does not
\* accept) and stays without a session; anything else is answered 400.
HandleStatefulRequest ==
  \E headers \in RequestHeaders, body \in RequestBodies, accepted \in BOOLEAN :
    LET request == [method |-> "POST", headers |-> headers, body |-> body]
        known == hasSessionId(headers) /\ headers.mcpSessionId \in DOMAIN http.transports
        creates == ~known /\ ~hasSessionId(headers) /\ isInitializeRequest(body)
        n == Len(http.servers) + 1
        server == _buildMcpServer(cfg, tools)
    IN /\ http.stateful
       /\ http.response = NoResponse
       /\ creates => Len(http.servers) < MaxSessions
       /\ http' =
            IF known
              THEN LET t == http.transports[headers.mcpSessionId]
                   IN [http EXCEPT !.response =
                         transportHandleRequest(request, t, http.servers[t])]
            ELSE IF creates /\ accepted
              THEN [http EXCEPT
                      !.servers = Append(@, [tools |-> server.tools,
                                             state |-> "initialized",
                                             sessionId |-> SessionIdOf(n)]),
                      !.transports = onsessioninitialized(@, SessionIdOf(n), n),
                      !.response = Response(request, 200, [sessionId |-> SessionIdOf(n)],
                                            n, "connected")]
            ELSE IF creates
              THEN [http EXCEPT
                      !.servers = Append(@, [tools |-> server.tools,
                                             state |-> "uninitialized",
                                             sessionId |-> ""]),
                      !.response = Response(request, 406, [sdk |-> "Not Acceptable"],
                                            n, "connected")]
            ELSE [http EXCEPT !.response =
                    Response(request, BAD_REQUEST_STATUS, BadRequestNoSession, 0, "none")]
       /\ UNCHANGED <<cfg, call, outcome, invoked, nested, wrapped, tools>>

\* handleSessionRequest: GET and DELETE on the MCP path of a stateful app.
\* The transport ends its session on DELETE: close() runs onclose.
HandleSessionRequest ==
  \E method \in {"GET", "DELETE"}, headers \in RequestHeaders :
    LET request == [method |-> method, headers |-> headers]
        known == hasSessionId(headers) /\ headers.mcpSessionId \in DOMAIN http.transports
    IN /\ http.stateful
       /\ http.response = NoResponse
       /\ http' =
            IF ~known
              THEN [http EXCEPT !.response =
                      Response(request, BAD_REQUEST_STATUS,
                               [text |-> "Invalid or missing session ID"], 0, "none")]
              ELSE LET n == http.transports[headers.mcpSessionId]
                       answered == [http EXCEPT !.response =
                                      transportHandleRequest(request, n, http.servers[n])]
                   IN IF method = "DELETE"
                        THEN [answered EXCEPT
                                !.servers[n].state = "closed",
                                !.transports = onclose(@, http.servers[n].sessionId)]
                        ELSE answered
       /\ UNCHANGED <<cfg, call, outcome, invoked, nested, wrapped, tools>>

\* The transport of a session closes (its server is closed, its connection
\* ends): onclose.
TransportClose ==
  \E n \in 1..Len(http.servers) :
    /\ http.servers[n].state = "initialized"
    /\ http.response = NoResponse
    /\ http' = [http EXCEPT
                  !.servers[n].state = "closed",
                  !.transports = onclose(@, http.servers[n].sessionId)]
    /\ UNCHANGED <<cfg, call, outcome, invoked, nested, wrapped, tools>>

\* handleStatelessRequest: POST on the MCP path of a stateless app. A server
\* and a transport are built for the request and closed when res closes.
HandleStatelessRequest ==
  \E headers \in RequestHeaders, body \in RequestBodies :
    LET request == [method |-> "POST", headers |-> headers, body |-> body]
        server == _buildMcpServer(cfg, tools)
    IN /\ ~http.stateful
       /\ http.response = NoResponse
       /\ http' = [http EXCEPT !.response =
                     IF isToolsListRequest(body)
                       THEN Response(request, 200, [tools |-> server.tools], 0, "none")
                     ELSE IF isInitializeRequest(body)
                       THEN Response(request, 200, [sdk |-> "initialized"], 0, "none")
                     ELSE Response(request, BAD_REQUEST_STATUS,
                                   [sdk |-> "Invalid Request"], 0, "none")]
       /\ UNCHANGED <<cfg, call, outcome, invoked, nested, wrapped, tools>>

\* _unhandledRequest: GET and DELETE on the MCP path of a stateless app.
UnhandledRequest ==
  \E method \in {"GET", "DELETE"}, headers \in RequestHeaders :
    /\ ~http.stateful
    /\ http.response = NoResponse
    /\ http' = [http EXCEPT !.response =
                  Response([method |-> method, headers |-> headers],
                           UNHANDLED_REQUEST_STATUS, MethodNotAllowed, 0, "none")]
    /\ UNCHANGED <<cfg, call, outcome, invoked, nested, wrapped, tools>>

\* res has been sent; the next request can be looked at.
ResponseSent ==
  /\ http.response # NoResponse
  /\ http' = [http EXCEPT !.response = NoResponse]
  /\ UNCHANGED <<cfg, call, outcome, invoked, nested, wrapped, tools>>

NextHttp ==
  \/ AddTool
  \/ AddAnnotatedFunction
  \/ HandleStatefulRequest
  \/ HandleSessionRequest
  \/ TransportClose
  \/ HandleStatelessRequest
  \/ UnhandledRequest
  \/ ResponseSent

SpecHttp == InitHttp /\ [][NextHttp]_vars

---------------------------------------------------------------------------
(* internal-libs.ts: zodToJson. A zod schema is its def: a record with a   *)
(* type, the innerType of a wrapper (optional, default, nullable), the     *)
(* shape of an object as the sequence of its <<key, field>> entries, and   *)
(* the description .describe() leaves on the schema it is called on.       *)

\* The most wrappers around a field's base schema.
MaxWrapDepth == 2

ZString == [type |-> "string"]
ZNumber == [type |-> "number"]
ZBoolean == [type |-> "boolean"]
ZEnum(values) == [type |-> "enum", entries |-> values]
ZLiteral(value) == [type |-> "literal", values |-> <<value>>]
ZArray(element) == [type |-> "array", element |-> element]
ZAny == [type |-> "any"]
ZUnion(options) == [type |-> "union", options |-> options]
ZIntersection(left, right) == [type |-> "intersection", left |-> left, right |-> right]
ZOptional(inner) == [type |-> "optional", innerType |-> inner]
ZDefault(inner) == [type |-> "default", innerType |-> inner]
ZNullable(inner) == [type |-> "nullable", innerType |-> inner]
ZObject(shape) == [type |-> "object", shape |-> shape]
Described(schema, description) == [description |-> description] @@ schema

_defOf(schema) == schema

RECURSIVE _unwrap(_)
_unwrap(schema) ==
  LET defAny == _defOf(schema)
  IN IF Has(defAny, "innerType") THEN _unwrap(defAny.innerType) ELSE schema

\* The description of the schema itself, else of what it wraps; "" stands
\* for none (an empty description is as falsy as a missing one).
_getDescription(original, unwrapped) ==
  IF Has(original, "description") THEN original.description
  ELSE IF Has(unwrapped, "description") THEN unwrapped.description
  ELSE ""

\* ...(desc ? { description: desc } : {})
WithDesc(json, desc) ==
  IF desc = "" THEN json ELSE json @@ [description |-> desc]

\* isOptional of _objectFromShape: the type of the field's own def.
isOptional(field) == _defOf(field).type \in {"optional", "default"}

RECURSIVE zodToJson(_)
RECURSIVE _objectFromShape(_, _)
_objectFromShape(shape, desc) ==
  LET keys == {shape[i][1] : i \in DOMAIN shape}
      fieldOf(key) == shape[CHOOSE i \in DOMAIN shape : shape[i][1] = key][2]
      requiredEntries == SelectSeq(shape, LAMBDA entry : ~isOptional(entry[2]))
      required == [i \in 1..Len(requiredEntries) |-> requiredEntries[i][1]]
      base == WithDesc([type |-> "object",
                        properties |-> [key \in keys |-> zodToJson(fieldOf(key))],
                        additionalProperties |-> FALSE], desc)
  IN IF Len(required) > 0 THEN base @@ [required |-> required] ELSE base

\* _literalSchema: the literal as `const`, with its JSON type when it has one.
_literalSchema(defAny, desc) ==
  LET literalValue == defAny.values[1]
      typed == IF literalValue.kind \in {"string", "number", "boolean"}
                 THEN [type |-> literalValue.kind, const |-> literalValue]
                 ELSE [const |-> literalValue]
  IN WithDesc(typed, desc)

\* A value that is no zod schema (undefined, a primitive, a plain value)
\* has no def; a def whose type has no handler gives {}.
zodToJson(schema) ==
  IF "kind" \in DOMAIN schema \/ ~Has(schema, "type") THEN EmptyObject
  ELSE
    LET s == _unwrap(schema)
        desc == _getDescription(schema, s)
    IN CASE s.type = "string" -> WithDesc([type |-> "string"], desc)
         [] s.type = "number" -> WithDesc([type |-> "number"], desc)
         [] s.type = "boolean" -> WithDesc([type |-> "boolean"], desc)
         [] s.type = "literal" -> _literalSchema(s, desc)
         [] s.type = "enum" -> WithDesc([type |-> "string", enum |-> s.entries], desc)
         [] s.type = "array" ->
              WithDesc([type |-> "array",
                        items |-> zodToJson(IF Has(s, "element") THEN s.element
                                            ELSE Undefined)], desc)
         [] s.type = "object" ->
              _objectFromShape(IF Has(s, "shape") THEN s.shape ELSE <<>>, desc)
         [] s.type = "union" ->
              WithDesc([anyOf |-> [i \in DOMAIN s.options |-> zodToJson(s.options[i])]], desc)
         [] OTHER -> EmptyObject

RECURSIVE SetToSeq(_)
\* Object.entries order of a set of keys (any fixed order).
SetToSeq(set) ==
  IF set = {} THEN <<>>
  ELSE LET first == CHOOSE x \in set : TRUE
       IN <<first>> \o SetToSeq(set \ {first})

\* A JSON definition is an object (a record without `kind`); undefined,
\* null, primitives and arrays are JavaScript values and carry a `kind`.
IsDefinitionObject(def) == "kind" \notin DOMAIN def
IsNullish(value) == Has(value, "kind") /\ value.kind \in {"undefined", "null"}
\* z.object(shape).loose()
Loose(schema) == [loose |-> TRUE] @@ schema
\* schema.nullable()
Nullable(schema) == [type |-> "nullable", innerType |-> schema]
\* An Array.isArray value with at least one element, under `key`.
HasNonEmptyArray(def, key) == Has(def, key) /\ Len(def[key]) > 0

\* null when there is nothing to enumerate, z.enum for all-string values
\* of a string definition, else the literal or the union of the literals.
NoEnum == [type |-> "null"]
createEnumOrLiterals(enumValues, preferredType) ==
  IF Len(enumValues) = 0 THEN NoEnum
  ELSE IF preferredType = "string"
          /\ \A i \in DOMAIN enumValues : enumValues[i].kind = "string"
    THEN ZEnum(enumValues)
  ELSE IF Len(enumValues) = 1 THEN ZLiteral(enumValues[1])
  ELSE ZUnion([i \in DOMAIN enumValues |-> ZLiteral(enumValues[i])])

RECURSIVE createZodTypeFromDefinition(_)
RECURSIVE openApiToZodSchema(_)
RECURSIVE intersectionReduce(_)

\* openApiToZodSchema with no field made optional.
openApiToZodSchemaAllRequired(parameters) ==
  IF IsNullish(parameters)
    THEN Thrown(TypeError("Cannot destructure property 'properties'"))
  ELSE IF ~IsDefinitionObject(parameters) \/ ~Has(parameters, "properties")
    THEN Returned(<<>>)
  ELSE LET keys == SetToSeq(DOMAIN parameters.properties)
       IN Returned([i \in DOMAIN keys |->
                      <<keys[i], createZodTypeFromDefinition(parameters.properties[keys[i]])>>])

\* The shape openApiToZodSchema returns, as <<key, field>> entries;
\* destructuring undefined or null throws.
openApiToZodSchema(parameters) ==
  IF IsNullish(parameters)
    THEN Thrown(TypeError("Cannot destructure property 'properties'"))
  ELSE IF ~IsDefinitionObject(parameters) \/ ~Has(parameters, "properties")
    THEN Returned(<<>>)
  ELSE LET keys == SetToSeq(DOMAIN parameters.properties)
           required == IF Has(parameters, "required")
                         THEN Range(parameters.required) ELSE {}
           zodField(key) == createZodTypeFromDefinition(parameters.properties[key])
       IN Returned([i \in DOMAIN keys |->
                      <<keys[i],
                        IF keys[i] \notin required
                          THEN ZOptional(zodField(keys[i]))
                          ELSE zodField(keys[i])>>])

buildUnionFromArray(arr) ==
  LET members == [i \in DOMAIN arr |-> createZodTypeFromDefinition(arr[i])]
  IN IF Len(members) = 1 THEN members[1] ELSE ZUnion(members)

\* members.reduce((acc, member) => z.intersection(acc, member))
intersectionReduce(members) ==
  IF Len(members) = 1 THEN members[1]
  ELSE ZIntersection(intersectionReduce(SubSeq(members, 1, Len(members) - 1)),
                     members[Len(members)])

buildIntersectionFromArray(arr) ==
  IF Len(arr) = 0 THEN ZAny
  ELSE intersectionReduce([i \in DOMAIN arr |-> createZodTypeFromDefinition(arr[i])])

createZodTypeFromDefinition(def) ==
  IF ~IsDefinitionObject(def) THEN ZAny
  ELSE IF HasNonEmptyArray(def, "anyOf") THEN buildUnionFromArray(def.anyOf)
  ELSE IF HasNonEmptyArray(def, "oneOf") THEN buildUnionFromArray(def.oneOf)
  ELSE IF HasNonEmptyArray(def, "allOf") THEN buildIntersectionFromArray(def.allOf)
  ELSE
    LET type == IF Has(def, "type") THEN def.type ELSE "undefined"
        enumValues == IF Has(def, "enum") THEN def.enum ELSE <<>>
        orElse(enumType, base) == IF enumType = NoEnum THEN base ELSE enumType
        zodType ==
          CASE type = "string" ->
                 LET base == orElse(createEnumOrLiterals(enumValues, "string"), ZString)
                 IN IF Has(def, "format") /\ def.format = "date-time" /\ base = ZString
                      THEN [datetime |-> TRUE] @@ ZString
                      ELSE base
            [] type \in {"number", "integer"} ->
                 orElse(createEnumOrLiterals(enumValues, "number"), ZNumber)
            [] type = "boolean" ->
                 orElse(createEnumOrLiterals(enumValues, "boolean"), ZBoolean)
            [] type = "array" ->
                 ZArray(IF Has(def, "items")
                          THEN createZodTypeFromDefinition(def.items) ELSE ZAny)
            [] type = "object" -> Loose(ZObject(openApiToZodSchema(def).value))
            [] OTHER -> orElse(createEnumOrLiterals(enumValues, "null"), ZAny)
    IN IF Has(def, "nullable") /\ def.nullable THEN Nullable(zodType) ELSE zodType

RECURSIVE WrappedSchemas(_)
\* A string schema under at most `depth` wrappers.
WrappedSchemas(depth) ==
  IF depth = 0 THEN {ZString}
  ELSE LET inner == WrappedSchemas(depth - 1)
       IN inner \cup {ZOptional(f) : f \in inner}
                \cup {ZDefault(f) : f \in inner}
                \cup {ZNullable(f) : f \in inner}

\* The fields of the object schemas converted: wrapped strings, the same
\* with a description, an object and an optional object.
FieldSchemas ==
  WrappedSchemas(MaxWrapDepth)
    \cup {Described(f, "Age in years") : f \in WrappedSchemas(MaxWrapDepth)}
    \cup {ZObject(<<<<"id", ZString>>>>),
          ZOptional(ZObject(<<<<"id", ZOptional(ZString)>>>>))}
ObjectSchemas ==
  {ZObject(<<>>)}
    \cup {ZObject(<<<<"name", f>>>>) : f \in FieldSchemas}
    \cup {ZObject(<<<<"name", f>>, <<"note", g>>>>) :
            f \in FieldSchemas, g \in WrappedSchemas(MaxWrapDepth)}

RECURSIVE accepts(_, _)
\* schema.safeParse(value).success
accepts(schema, value) ==
  CASE schema.type = "any" -> TRUE
    [] schema.type = "string" ->
         /\ value.kind = "string"
         /\ Has(schema, "datetime") => value.s = "2026-01-01T00:00:00Z"
    [] schema.type = "number" -> value.kind = "number"
    [] schema.type = "boolean" -> value.kind = "boolean"
    [] schema.type = "enum" -> value \in Range(schema.entries)
    [] schema.type = "literal" -> value = schema.values[1]
    [] schema.type \in {"optional", "default"} ->
         value = Undefined \/ accepts(schema.innerType, value)
    [] schema.type = "nullable" -> value = Null \/ accepts(schema.innerType, value)
    [] schema.type = "array" ->
         /\ value.kind = "array"
         /\ \A i \in DOMAIN value.items : accepts(schema.element, value.items[i])
    [] schema.type = "object" ->
         /\ value.kind = "object"
         /\ \A i \in DOMAIN schema.shape :
              accepts(schema.shape[i][2],
                      IF Has(value, schema.shape[i][1])
                        THEN value[schema.shape[i][1]] ELSE Undefined)
    [] schema.type = "union" ->
         \E i \in DOMAIN schema.options : accepts(schema.options[i], value)
    [] schema.type = "intersection" ->
         accepts(schema.left, value) /\ accepts(schema.right, value)

\* The deepest nesting of the schema trees and of the values tried on them.
MaxSchemaDepth == 2

True == [kind |-> "boolean", b |-> TRUE]
LeafSchemas ==
  {ZString, ZNumber, ZBoolean, ZEnum(<<Str("a"), Str("b")>>),
   ZLiteral(Str("a")), ZLiteral(Num(1)), ZLiteral(True)}

RECURSIVE SchemaTrees(_)
\* Trees of objects (a required field, an optional one), arrays and leaves.
SchemaTrees(depth) ==
  IF depth = 0 THEN LeafSchemas
  ELSE LET below == SchemaTrees(depth - 1)
       IN below
            \cup {ZArray(e) : e \in below}
            \cup {ZObject(<<<<"name", f>>>>) : f \in below}
            \cup {ZObject(<<<<"note", ZOptional(f)>>>>) : f \in below}
            \cup {ZObject(<<<<"name", f>>, <<"note", ZOptional(g)>>>>) :
                    f \in LeafSchemas, g \in LeafSchemas}

Primitives == {Undefined, Null, Str("a"), Str("c"), Num(1), Num(2), True}
RECURSIVE SampleValues(_)
SampleValues(depth) ==
  IF depth = 0 THEN Primitives
  ELSE LET below == SampleValues(depth - 1)
       IN below
            \cup {Arr(<<>>), [kind |-> "object"]}
            \cup {Arr(<<v>>) : v \in below}
            \cup {Arr(<<v, Str("a")>>) : v \in Primitives}
            \cup {[kind |-> "object", name |-> v] : v \in below}
            \cup {[kind |-> "object", note |-> v] : v \in Primitives}
            \cup {[kind |-> "object", name |-> v, note |-> w, extra |-> Str("x")] :
                    v \in Primitives, w \in Primitives}

\* What the schema bridge is given besides schemas: undefined, a non-object,
\* an unknown type tag, an object schema without properties, an empty enum,
\* empty combinators, an empty definition.
BridgeInputs ==
  {Undefined, Str("text"), [type |-> "mystery"], [type |-> "object"],
   [type |-> "string", enum |-> <<>>], [anyOf |-> <<>>], [oneOf |-> <<>>],
   [allOf |-> <<>>], [type |-> "array"],
   [type |-> "object", properties |-> [name |-> [type |-> "string"]],
    required |-> <<"name">>]}
BridgeFunctions ==
  {"zodToJson", "openApiToZodSchema", "createZodTypeFromDefinition", "_buildMcpServer"}

\* isZodSchema: a schema object of zod rather than a JSON definition.
ToolZodSchemas == {ZObject(<<<<"id", ZString>>>>)}
isZodSchema(schema) == schema \in ToolZodSchemas

\* The inputSchema _buildMcpServer registers a tool with.
registeredInputSchema(inputSchema) ==
  IF isZodSchema(inputSchema) THEN Returned(inputSchema)
  ELSE LET shape == openApiToZodSchema(inputSchema)
       IN IF shape.status = "thrown" THEN shape ELSE Returned(ZObject(shape.value))

InitSchema ==
  /\ cfg = MkConfig({}, FALSE)
  /\ call = NoCall
  /\ outcome = NoOutcome
  /\ invoked = {}
  /\ nested = NoNested
  /\ wrapped = NoWrapped
  /\ tools = <<>>
  /\ http = NoHttp

\* zodToJson(schema) for an object schema.
ZodToJsonCall ==
  \E schema \in ObjectSchemas :
    /\ call = NoCall
    /\ call' = [tool |-> "zodToJson", schema |-> schema]
    /\ outcome' = Returned(zodToJson(schema))
    /\ UNCHANGED <<cfg, invoked, nested, wrapped, tools, http>>

\* A schema converted to its JSON description and back.
RoundTripCall ==
  \E schema \in SchemaTrees(MaxSchemaDepth) :
    /\ call = NoCall
    /\ call' = [tool |-> "roundTrip", schema |-> schema]
    /\ outcome' = Returned(createZodTypeFromDefinition(zodToJson(schema)))
    /\ UNCHANGED <<cfg, invoked, nested, wrapped, tools, http>>

\* One function of the bridge applied to an input that is no usual schema;
\* for _buildMcpServer the input is the inputSchema of a tool (undefined
\* when the tool has none).
SchemaBridgeCall ==
  \E function \in BridgeFunctions, input \in BridgeInputs \cup ToolZodSchemas :
    /\ call = NoCall
    /\ call' = [tool |-> "schemaBridge", function |-> function, input |-> input]
    /\ outcome' =
         CASE function = "zodToJson" -> Returned(zodToJson(input))
           [] function = "openApiToZodSchema" -> openApiToZodSchema(input)
           [] function = "createZodTypeFromDefinition" ->
                Returned(createZodTypeFromDefinition(input))
           [] function = "_buildMcpServer" -> registeredInputSchema(input)
    /\ UNCHANGED <<cfg, invoked, nested, wrapped, tools, http>>

NextSchema ==
  \/ ZodToJsonCall
  \/ RoundTripCall
  \/ SchemaBridgeCall
  \/ Respond

SpecSchema == InitSchema /\ [][NextSchema]_vars

---------------------------------------------------------------------------
(* Claims about the hide rules and the built-in tools.                     *)

\* The envelope of an error object with this code and message.
ErrorEnvelope(code, message) ==
  LET errorObject == [kind |-> "object", error |-> [code |-> code, message |-> message]]
  IN [kind |-> "object",
      isError |-> TRUE,
      content |-> <<[type |-> "text", text |-> [json |-> errorObject]]>>,
      structuredContent |-> errorObject]

FeatureNotFoundOutcome ==
  [status |-> "resolved", value |-> ErrorEnvelope("FEATURE_NOT_FOUND", "Feature not found")]

\* The hide rules as configured, read off the configuration itself.
LegacyHidden == BuiltInHiddenPaths \cup cfg.hiddenPaths
DomainHiddenByRule(domain) ==
  domain \in LegacyHidden \cup cfg.hideComponents.domains
FeatureHiddenByRule(domain, featureName) ==
  (domain \o "." \o featureName) \in LegacyHidden \cup cfg.hideComponents.paths
FeatureAbsent(domain, featureName) ==
  domain \notin RegisteredDomains \/ featureName \notin EntryNames(domain)

OutcomeErrorCode(o) ==
  IF o.status # "resolved" THEN "escaped"
  ELSE IF "isError" \notin DOMAIN o.value THEN "none"
  ELSE LET parsed == JSONparse(o.value.content[1].text)
       IN IF isErrorObject(parsed) THEN parsed.error.code ELSE "none"

NotFoundCodes == {"DOMAIN_NOT_FOUND", "FEATURE_NOT_FOUND", "MODEL_NOT_FOUND", "MODELS_NOT_FOUND"}
IsNotFound(o) == OutcomeErrorCode(o) \in NotFoundCodes

\* What the listings show under a configuration.
ListedDomainNames(config) ==
  {_listDomains(config).items[i].name : i \in 1..Len(_listDomains(config).items)}
ListedFeatureNames(config, domain) ==
  LET features == _listFeaturesOfDomain(config, domain)
  IN IF isErrorObject(features) THEN {}
     ELSE {features.items[i].name : i \in 1..Len(features.items)}

NoRules == MkConfig({}, FALSE)
\* A hide rule took the domain / the feature out of a listing that shows it
\* when nothing is hidden.
DomainOmittedByRule(domain) ==
  domain \in ListedDomainNames(NoRules) /\ domain \notin ListedDomainNames(cfg)
FeatureOmittedByRule(domain, featureName) ==
  /\ featureName \in ListedFeatureNames(NoRules, domain)
  /\ featureName \notin ListedFeatureNames(cfg, domain)

FeatureTools == {"describe_feature", "execute_feature"}
ModelCrudTools == {"model_" \o operation : operation \in ModelOperations}
ModelTools == {"describe_model"} \cup ModelCrudTools
\* The call names a model the registry has (for describe_model, under its domain).
CallsRegisteredModel ==
  /\ call.tool \in ModelTools
  /\ call.modelType[2] \in Range(Models(call.modelType[1]))
  /\ call.domain = call.modelType[1]

\* C2: whatever a hide rule takes out of list_domains / list_features /
\* list_models, the describe and execute tools answer with a not-found error
\* for it and call nothing: features through describe_feature and
\* execute_feature, models through describe_model and the six CRUD tools.
C2_ListingsAndExecutionAgree ==
  /\ (/\ call.tool \in FeatureTools
      /\ EntryType(call.domain, call.featureName) = "function"
      /\ \/ DomainOmittedByRule(call.domain)
         \/ FeatureOmittedByRule(call.domain, call.featureName))
       => (IsNotFound(outcome) /\ invoked = {})
  /\ (CallsRegisteredModel /\ DomainOmittedByRule(call.domain))
       => (IsNotFound(outcome) /\ invoked = {})

\* C4: a bare domain name in hideComponents.paths hides the whole domain:
\* list_domains leaves it out, list_features on it answers DOMAIN_NOT_FOUND,
\* describe_feature and execute_feature on it answer FEATURE_NOT_FOUND.
C4_BareDomainInPathsHidesDomain ==
  /\ call.tool = "list_domains"
       => \A domain \in cfg.hideComponents.paths \cap RegisteredDomains :
            \A i \in 1..Len(JSONparse(outcome.value.content[1].text).domains.items) :
              JSONparse(outcome.value.content[1].text).domains.items[i].name # domain
  /\ (call.tool = "list_features" /\ call.domain \in cfg.hideComponents.paths)
       => OutcomeErrorCode(outcome) = "DOMAIN_NOT_FOUND"
  /\ (call.tool \in FeatureTools /\ call.domain \in cfg.hideComponents.paths)
       => (OutcomeErrorCode(outcome) = "FEATURE_NOT_FOUND" /\ invoked = {})

\* The model types a successful list_models answer names.
ListedModelTypes(o) ==
  IF OutcomeErrorCode(o) # "none" THEN {}
  ELSE LET parsed == JSONparse(o.value.content[1].text)
       IN IF parsed.kind # "array" THEN {}
          ELSE {parsed.items[i].modelType : i \in 1..Len(parsed.items)}

\* hideComponents.paths names the model, or the cruds of its domain.
ModelHiddenByComponentPath(domain, model) ==
  \/ (domain \o ".cruds") \in cfg.hideComponents.paths
  \/ (domain \o ".cruds." \o model) \in cfg.hideComponents.paths
\* No hide rule of any kind reaches the model.
ModelNotHidden(domain, model) ==
  /\ ~DomainHiddenByRule(domain)
  /\ ~cfg.hideComponents.allModels
  /\ (domain \o ".cruds") \notin LegacyHidden \cup cfg.hideComponents.paths
  /\ (domain \o ".cruds." \o model) \notin LegacyHidden \cup cfg.hideComponents.paths

\* C5: the model tools honour 'D.cruds' and 'D.cruds.M' in
\* hideComponents.paths: list_models leaves such a model out, describe_model
\* and the six CRUD tools answer not-found without calling the model, and a
\* model no rule hides is still listed and served.
C5_ModelToolsHonourComponentPaths ==
  /\ call.tool = "list_models"
       => \A model \in Range(Models(call.domain)) :
            /\ ModelHiddenByComponentPath(call.domain, model)
                 => ModelTypeName(call.domain, model) \notin ListedModelTypes(outcome)
            /\ ModelNotHidden(call.domain, model)
                 => ModelTypeName(call.domain, model) \in ListedModelTypes(outcome)
  /\ CallsRegisteredModel
       => /\ ModelHiddenByComponentPath(call.modelType[1], call.modelType[2])
               => (IsNotFound(outcome) /\ invoked = {})
          /\ (/\ ModelNotHidden(call.modelType[1], call.modelType[2])
              /\ call.tool = "describe_model" \/ call.behaviour = "succeeds")
               => (OutcomeErrorCode(outcome) = "none" /\ invoked # {})

\* The domains list_domains has to show, read off the configuration and the
\* registry alone.
ExpectedDomains ==
  {domain \in RegisteredDomains :
     /\ domain \notin BuiltInHiddenPaths
     /\ domain \notin cfg.hiddenPaths
     /\ domain \notin cfg.hideComponents.domains
     /\ \/ \E e \in Range(Entries(domain)) :
             /\ e.type = "function"
             /\ (domain \o "." \o e.name) \notin LegacyHidden \cup cfg.hideComponents.paths
        \/ /\ ~cfg.hideComponents.allModels
           /\ (domain \o ".cruds") \notin LegacyHidden
           /\ \E model \in Range(Models(domain)) :
                (domain \o ".cruds." \o model) \notin LegacyHidden \cup cfg.hideComponents.paths}

\* The names in the answer of a list_domains call.
AnsweredDomains ==
  LET domains == JSONparse(outcome.value.content[1].text).domains
  IN {domains.items[i].name : i \in 1..Len(domains.items)}

ProperPrefixes(path) == {SubSeq(path, 1, k) : k \in 1..(Len(path) - 1)}

---------------------------------------------------------------------------
(* Claims about the merged cross layer props and the tools' results.       *)

\* The wrapped call reached the tool: the tool was given merged props.
ToolReceivedProps == wrapped.tool # "none" /\ DOMAIN wrapped.received # {}

\* C7: in the props the handler receives, requestInfo is the transport's,
\* field by field (no header key of the client's own), and authInfo, when
\* there is one, is the transport's; nothing the client put under
\* crossLayerProps.requestInfo or .authInfo, at the top level or in args,
\* is left.
C7_TransportAlwaysWins ==
  ToolReceivedProps =>
    LET merged == wrapped.received.mergedCrossLayerProps
        handed == wrapped.received.mergedInput
    IN /\ handed.crossLayerProps = merged
       /\ Has(handed, "args") => ~Has(handed.args, "crossLayerProps")
       /\ merged.requestInfo = buildRequestInfoFromSdkExtra(wrapped.extra)
       /\ Has(merged, "authInfo") =>
            /\ Has(wrapped.extra, "authInfo")
            /\ merged.authInfo = buildAuthInfoFromSdkExtra(wrapped.extra)

\* C8: the props the handler receives have an authInfo exactly when the
\* transport's extra has one.
C8_AuthInfoIffTransportAuth ==
  ToolReceivedProps =>
    (Has(wrapped.received.mergedCrossLayerProps, "authInfo")
       <=> Has(wrapped.extra, "authInfo"))

\* The functions of FuncBehaviours that fail, with the message they fail with.
FailingFuncs == DOMAIN FuncErrors

\* C9: commonMcpExecute(func)() always resolves to an envelope, whatever
\* func does, and when func failed the envelope is an isError one whose
\* error object has code UNCAUGHT_EXCEPTION and the failure's message as
\* details.
C9_CommonMcpExecuteTotal ==
  call.tool = "commonMcpExecute" =>
    /\ outcome.status = "resolved"
    /\ isMcpResponse(outcome.value)
    /\ call.func \in FailingFuncs =>
         /\ OutcomeErrorCode(outcome) = "UNCAUGHT_EXCEPTION"
         /\ JSONparse(outcome.value.content[1].text).error.details = FuncErrors[call.func]

\* The handler or the logging around it failed in the wrapped call.
WrappedCallFailed ==
  \/ wrapped.logging \in {"requestLogGetDataThrows", "responseLogGetDataThrows"}
  \/ wrapped.tool = "execute_feature" /\ wrapped.behaviour \in {"rejects", "throws"}
  \/ wrapped.tool = "model_save" /\ wrapped.behaviour \in {"validationError", "fails"}
  \/ wrapped.tool = "addTool" /\ wrapped.behaviour \in {"rejects", "throws"}
  \/ wrapped.tool = "addAnnotatedFunction" /\ wrapped.behaviour \in {"rejects", "throws"}

\* C10: whatever tool of the registry the transport calls, the wrapped
\* execute resolves to an envelope {content: [{type: 'text', text}]}, and a
\* failure of the handler or of the logging gives an isError envelope whose
\* text is the JSON of an error object.
C10_NoExceptionEscapes ==
  wrapped.tool # "none" =>
    /\ wrapped.result.status = "resolved"
    /\ isMcpResponse(wrapped.result.value)
    /\ WrappedCallFailed =>
         /\ "isError" \in DOMAIN wrapped.result.value
         /\ "json" \in DOMAIN wrapped.result.value.content[1].text
         /\ isErrorObject(JSONparse(wrapped.result.value.content[1].text))

---------------------------------------------------------------------------
(* Claims about error handling in the built-in and model tools.            *)

AllModelTools == {"list_models"} \cup ModelTools
\* The domain a model tool call resolves: input.domain, or the namespace of
\* input.modelType for the CRUD tools.
ResolvedDomain == call.domain

\* The call names something the registry cannot resolve: a domain that does
\* not exist, a domain without cruds, a model the domain does not have, or a
\* modelType without a domain or a model part.
ResolutionFails ==
  \/ /\ call.tool = "list_features"
     /\ call.domain \notin RegisteredDomains
  \/ /\ call.tool = "list_models"
     /\ call.domain \notin RegisteredDomains \/ ~hasCruds(call.domain)
  \/ /\ call.tool \in ModelTools
     /\ \/ ResolvedDomain \notin RegisteredDomains
        \/ ~hasCruds(ResolvedDomain)
        \/ call.modelType[1] = ""
        \/ call.modelType[2] = ""
        \/ call.modelType[2] \notin Range(Models(ResolvedDomain))

\* C11: a resolution failure in list_features, list_models, describe_model
\* or a model CRUD tool is answered with a *_NOT_FOUND error object, never
\* with a thrown exception or an UNCAUGHT_EXCEPTION.
C11_ResolutionFailuresAreNotFound ==
  ResolutionFails => IsNotFound(outcome)

\* C12: a validation failure of the model layer during model_save or
\* model_bulk_insert on a model that exists and is not hidden resolves to
\* an isError envelope whose error object has code VALIDATION_ERROR and
\* details {keysToErrors, modelName} of the failure.
C12_ValidationErrorDetails ==
  (/\ call.tool \in {"model_save", "model_bulkInsert"}
   /\ CallsRegisteredModel
   /\ ModelNotHidden(call.modelType[1], call.modelType[2])
   /\ call.behaviour = "validationError")
    => /\ OutcomeErrorCode(outcome) = "VALIDATION_ERROR"
       /\ JSONparse(outcome.value.content[1].text).error.details
            = [keysToErrors |-> ValidationError(call.modelType[2]).keysToErrors,
               modelName |-> call.modelType[2]]

---------------------------------------------------------------------------
(* Claims about the envelope commonMcpExecute and createMcpResponse build. *)

\* The value the function given to commonMcpExecute resolved to.
FuncValue == FuncCall(call.func).value
HandlerReturned ==
  /\ call.tool = "commonMcpExecute"
  /\ FuncCall(call.func).status = "resolved"
HasIsError(envelope) == "isError" \in DOMAIN envelope
IsErrorIffErrorObject(value, o) ==
  /\ o.status = "resolved"
  /\ HasIsError(o.value) <=> isErrorObject(value)
  /\ HasIsError(o.value) => o.value.isError = TRUE
  /\ isErrorObject(value) => o.value.content[1].text = JSONstringify(value)

\* C13 as stated: for every value a handler returns through commonMcpExecute,
\* the envelope has isError (and it is true) iff the value is an error object,
\* and the text of an error envelope is the JSON of the whole error object.
C13_IsErrorIffErrorObject_AsStated ==
  HandlerReturned => IsErrorIffErrorObject(FuncValue, outcome)

\* C13: for every value a handler returns through commonMcpExecute that
\* JSON.stringify accepts and that is not an envelope already, the envelope
\* has isError, equal to true, iff the value is an error object, and the text
\* of an error envelope is the JSON of the whole error object. An envelope
\* comes back with the isError it carried, and a value JSON.stringify rejects
\* comes back as an UNCAUGHT_EXCEPTION envelope with isError.
C13_IsErrorIffErrorObject ==
  HandlerReturned =>
    /\ (Stringifiable(FuncValue) /\ ~isMcpResponse(FuncValue))
         => IsErrorIffErrorObject(FuncValue, outcome)
    /\ isMcpResponse(FuncValue) => outcome = Resolved(FuncValue)
    /\ ~Stringifiable(FuncValue)
         => OutcomeErrorCode(outcome) = "UNCAUGHT_EXCEPTION"
C13_Witness ==
  /\ HandlerReturned
  /\ call.func = "resolvesErrorObject"
  /\ outcome.status = "resolved"
  /\ outcome.value.isError = TRUE
  /\ JSONparse(outcome.value.content[1].text) = BusinessError

\* typeof v === 'object' for a v that is neither null nor an array.
IsObjectValue(v) == v.kind \in {"object", "Error"}

C15_FormattingIdempotentOnEnvelopes ==
  call.tool = "commonMcpExecute" =>
    /\ (HandlerReturned /\ isMcpResponse(FuncValue)) => outcome = Resolved(FuncValue)
    /\ outcome.status = "resolved" =>
         /\ _formatResponse(outcome.value) = Returned(outcome.value)
         /\ commonMcpExecute(Resolved(outcome.value)) = outcome
C15_Witness ==
  /\ call.tool = "commonMcpExecute"
  /\ call.func = "resolvesEnvelope"
  /\ isMcpResponse(FuncValue)
  /\ outcome = Resolved(PlainTextEnvelope)

---------------------------------------------------------------------------
(* Claims about the logging wrapper and the tool registry.                 *)

\* What the handler under the wrapper did in the call the wrapper served.
HandlerOutcome == ToolExecute(cfg, <<wrapped.tool, wrapped.behaviour>>)

\* C16: with logging callbacks that do not throw, the wrapped execute
\* resolves to exactly the value the handler resolved to, whatever that value
\* is (an envelope with JSON text, an envelope with other text, a raw value),
\* and it fails only when the handler failed.
C16_LoggingWrapperTransparent ==
  (wrapped.tool # "none" /\ wrapped.logging \in {"none", "getData"})
    => /\ HandlerOutcome.status = "resolved" => wrapped.result = HandlerOutcome
       /\ wrapped.result.status # "resolved"
            => HandlerOutcome.status \in {"rejected", "thrown"}

\* C17 as stated: the assembled tools are START_HERE, list_domains,
\* list_features, describe_feature, execute_feature, then the eight model
\* tools iff allModels is not true, then the added tools in registration order.
C17_ToolSequence_AsStated ==
  call.tool = "_buildAllTools" =>
    outcome.value =
      <<"START_HERE", "list_domains", "list_features", "describe_feature",
        "execute_feature">>
      \o (IF cfg.hideComponents.allModels
            THEN <<>>
            ELSE <<"list_models", "describe_model", "model_save", "model_retrieve",
                   "model_delete", "model_search", "model_bulk_insert",
                   "model_bulk_delete">>)
      \o tools

\* C17: the assembled tools are the start-here tool, named config.startHere.name
\* and START_HERE when no name is configured, then list_domains, list_features,
\* describe_feature, execute_feature, then list_models, describe_model,
\* model_save, model_retrieve, model_delete, model_search, model_bulk_insert,
\* model_bulk_delete iff allModels is not true, then the added tools in
\* registration order; with allModels true none of the eight is in the list.
C17_ToolSequence ==
  call.tool = "_buildAllTools" =>
    LET built == outcome.value
        first == IF "startHere" \in DOMAIN cfg /\ "name" \in DOMAIN cfg.startHere
                   THEN cfg.startHere.name ELSE "START_HERE"
        models == <<"list_models", "describe_model", "model_save", "model_retrieve",
                     "model_delete", "model_search", "model_bulk_insert",
                     "model_bulk_delete">>
        fixed == <<first, "list_domains", "list_features", "describe_feature",
                   "execute_feature">>
    IN /\ ~cfg.hideComponents.allModels => built = fixed \o models \o tools
       /\ cfg.hideComponents.allModels =>
            /\ built = fixed \o tools
            /\ \A i \in 1..Len(built) : built[i] \notin Range(models)
C17_Witness ==
  /\ call.tool = "_buildAllTools"
  /\ ~cfg.hideComponents.allModels
  /\ tools = <<"get_time", "createInvoice", "get_weather">>
  /\ Len(outcome.value) = 16
  /\ outcome.value[6] = "list_models"
  /\ outcome.value[14] = "get_time"

\* The headers the transport request carried, as the SDK's extra has them.
TransportHeaders ==
  LET sdkHeaders == GetOrEmpty(GetOrEmpty(wrapped.extra, "requestInfo"), "headers")
  IN [key \in {k \in DOMAIN sdkHeaders : sdkHeaders[k] # Undefined} |-> sdkHeaders[key]]

\* C18: the handler is called with (mergedInput, mergedCrossLayerProps):
\* mergedInput has an args key iff the raw input had one, args has no
\* crossLayerProps key and keeps its other keys, every other key of the raw
\* input is kept, the second argument is mergedInput.crossLayerProps, and its
\* requestInfo.headers has every header of the transport request (a repeated
\* header as its values joined with ", ").
C18_HandlerGetsCleanArgsAndContext ==
  ToolReceivedProps =>
    LET raw == wrapped.input
        handed == wrapped.received.mergedInput
        merged == wrapped.received.mergedCrossLayerProps
    IN /\ Has(handed, "args") <=> Has(raw, "args")
       /\ Has(handed, "args") =>
            /\ ~Has(handed.args, "crossLayerProps")
            /\ \A k \in DOMAIN raw.args \ {"crossLayerProps"} :
                 Has(handed.args, k) /\ handed.args[k] = raw.args[k]
       /\ \A k \in DOMAIN raw \ {"args", "crossLayerProps"} :
            Has(handed, k) /\ handed[k] = raw[k]
       /\ Has(handed, "crossLayerProps") /\ handed.crossLayerProps = merged
       /\ \A h \in DOMAIN TransportHeaders :
            /\ Has(merged.requestInfo.headers, h)
            /\ merged.requestInfo.headers[h] =
                 IF TransportHeaders[h].kind = "array"
                   THEN JoinWith(TransportHeaders[h].items, ", ")
                   ELSE TransportHeaders[h].s
C18_Witness ==
  /\ ToolReceivedProps
  /\ wrapped.tool = "execute_feature"
  /\ Has(wrapped.input, "args")
  /\ Has(wrapped.input.args, "crossLayerProps")
  /\ Has(GetOrEmpty(wrapped.input.args.crossLayerProps, "requestInfo"), "headers")
  /\ DOMAIN TransportHeaders = {"a"}
  /\ wrapped.received.mergedInput.args = [id |-> "42"]
  /\ wrapped.received.mergedCrossLayerProps.requestInfo.headers.a = "2, 3"

\* logging.ids of a props object, empty when it has none.
LoggingIds(props) == GetOrEmpty(GetOrEmpty(props, "logging"), "ids")

\* C19: the logging.ids the handler receives are the ids of the client's
\* top-level crossLayerProps, then those of args.crossLayerProps, then this
\* call's logger ids, none dropped or replaced; and along a chain of calls
\* that each forward their props and append one id, the n-th call's
\* logging.ids has n ids, the earlier ones first.
C19_LoggingIdsConcatenated ==
  ToolReceivedProps =>
    LET raw == wrapped.input
        merged == wrapped.received.mergedCrossLayerProps
    IN /\ LoggingIds(merged)
            = LoggingIds(GetOrEmpty(raw, "crossLayerProps"))
              \o LoggingIds(GetOrEmpty(GetOrEmpty(raw, "args"), "crossLayerProps"))
              \o LoggerIds
       /\ \A n \in 1..MaxForwards :
            LET ids == LoggingIds(forwardedCrossLayerProps(wrapped.combine, wrapped.extra, n))
                before == LoggingIds(forwardedCrossLayerProps(wrapped.combine, wrapped.extra, n - 1))
            IN /\ Len(ids) = n
               /\ SubSeq(ids, 1, n - 1) = before
C19_Witness ==
  /\ ToolReceivedProps
  /\ LoggingIds(GetOrEmpty(wrapped.input, "crossLayerProps")) = <<[traceId |-> "t-1"]>>
  /\ Len(LoggingIds(GetOrEmpty(GetOrEmpty(wrapped.input, "args"), "crossLayerProps"))) = 2
  /\ Len(LoggingIds(wrapped.received.mergedCrossLayerProps)) = 4
  /\ LoggingIds(wrapped.received.mergedCrossLayerProps)[4] = [requestId |-> RequestId]

---------------------------------------------------------------------------
(* Claims about zodToJson.                                                 *)

RECURSIVE OptionalOrDefaulted(_)
\* The field is optional or defaulted under any number of wrappers.
OptionalOrDefaulted(field) ==
  \/ field.type \in {"optional", "default"}
  \/ Has(field, "innerType") /\ OptionalOrDefaulted(field.innerType)

\* C20: for every object schema zodToJson converts, a field's name is in
\* `required` iff the field is neither optional nor defaulted at any wrapper
\* depth, and the `required` key is absent when no field is required.
C20_RequiredIffNotOptional ==
  call.tool = "zodToJson" =>
    LET shape == call.schema.shape
        json == outcome.value
        mustHave == {shape[i][1] : i \in {j \in DOMAIN shape : ~OptionalOrDefaulted(shape[j][2])}}
        listed == IF Has(json, "required") THEN Range(json.required) ELSE {}
    IN /\ listed = mustHave
       /\ Has(json, "required") <=> mustHave # {}

\* C21: every value the original schema accepts is accepted by the schema
\* obtained from its JSON description, for trees of objects (required and
\* optional fields), arrays, strings, numbers, booleans, string enums and
\* literals.
C21_RoundTripNeverNarrows ==
  call.tool = "roundTrip" =>
    \A value \in SampleValues(MaxSchemaDepth) :
      accepts(call.schema, value) => accepts(outcome.value, value)
C21_Witness ==
  /\ call.tool = "roundTrip"
  /\ call.schema = ZObject(<<<<"name", ZEnum(<<Str("a"), Str("b")>>)>>,
                             <<"note", ZOptional(ZNumber)>>>>)
  /\ accepts(call.schema, [kind |-> "object", name |-> Str("a")])
  /\ accepts(outcome.value, [kind |-> "object", name |-> Str("a")])
  /\ ~accepts(outcome.value, [kind |-> "object", name |-> Str("c")])
  /\ Has(outcome.value, "loose")

\* C22: whatever the schema bridge is given (undefined, a non-object, an
\* unknown type tag, an object schema without properties, an empty enum, an
\* empty combinator, a tool without inputSchema), zodToJson,
\* openApiToZodSchema, createZodTypeFromDefinition and the schema conversion
\* of _buildMcpServer return and do not throw.
C22_SchemaBridgeNeverThrows ==
  call.tool = "schemaBridge" => outcome.status = "returned"

---------------------------------------------------------------------------
(* Claims about the model tools' results.                                  *)

\* A model tool is called on a registered model that no rule hides.
VisibleModelCall ==
  /\ call.tool \in ModelTools
  /\ CallsRegisteredModel
  /\ ModelNotHidden(call.modelType[1], call.modelType[2])
NonErrorEnvelope(o) ==
  /\ o.status = "resolved"
  /\ isMcpResponse(o.value)
  /\ ~HasIsError(o.value)

\* C23: on a visible model, model_save and model_bulk_delete that the store
\* carries out return a non-error envelope, model_retrieve of an id the
\* store no longer holds returns MODEL_NOT_FOUND, and model_retrieve of an id
\* it still holds returns the instance.
C23_BulkDeleteThenRetrieve ==
  VisibleModelCall =>
    /\ (call.tool \in {"model_save", "model_bulkDelete"} /\ call.behaviour = "succeeds")
         => NonErrorEnvelope(outcome)
    /\ (call.tool = "model_retrieve" /\ call.behaviour = "notStored")
         => OutcomeErrorCode(outcome) = "MODEL_NOT_FOUND"
    /\ (call.tool = "model_retrieve" /\ call.behaviour = "succeeds")
         => NonErrorEnvelope(outcome)

\* The domain is registered, no rule hides it, and it has a model no rule hides.
VisibleModelDomain(domain) ==
  /\ domain \in RegisteredDomains
  /\ hasCruds(domain)
  /\ \E model \in Range(Models(domain)) : ModelNotHidden(domain, model)
\* The models the payload of a list_models answer carries under its
\* 'models' key, as the tool's outputSchema describes it.
PayloadModels(o) == JSONparse(o.value.content[1].text).models

\* C24: list_models on a visible domain returns a non-error envelope whose
\* payload is an object with a 'models' array, and that array has exactly
\* one entry, carrying the model's type, for every model no rule hides.
C24_ListModelsPayload ==
  (call.tool = "list_models" /\ VisibleModelDomain(call.domain))
    => /\ NonErrorEnvelope(outcome)
       /\ IsObjectValue(JSONparse(outcome.value.content[1].text))
       /\ Has(JSONparse(outcome.value.content[1].text), "models")
       /\ PayloadModels(outcome).kind = "array"
       /\ \A model \in Range(Models(call.domain)) :
            Cardinality({i \in 1..Len(PayloadModels(outcome).items) :
                           PayloadModels(outcome).items[i].modelType
                             = ModelTypeName(call.domain, model)})
              = IF ModelNotHidden(call.domain, model) THEN 1 ELSE 0

---------------------------------------------------------------------------
(* Claims about the request and response log entries.                      *)

\* The level config.logging asks for under a key, 'info' when it has none.
ConfiguredLevel(levels, key) ==
  IF Has(levels, key) THEN levels[key] ELSE "info"

\* C26: the wrapper writes 'Request received' at logging.requestLogLevel
\* and 'Request Response' at logging.responseLogLevel, each 'info' when not
\* set, so that setting only responseLogLevel moves only the response entry.
C26_LogLevelsIndependent ==
  wrapped.tool # "none" =>
    \A i \in 1..Len(wrapped.entries) :
      /\ wrapped.entries[i].message = "Request received"
           => wrapped.entries[i].level = ConfiguredLevel(wrapped.levels, "requestLogLevel")
      /\ wrapped.entries[i].message = "Request Response"
           => wrapped.entries[i].level = ConfiguredLevel(wrapped.levels, "responseLogLevel")

---------------------------------------------------------------------------
(* Claims about the envelope of an empty result.                           *)

\* The text made of two double quotes: the JSON of the empty string.
TwoQuotesText == JSONstringify(Str(""))

\* C27: for a result of null and of undefined the envelope's content[0].text
\* is the two-character text of two double quotes, and the envelope has
\* neither isError nor structuredContent.
C27_EmptyResultText ==
  (/\ call.tool = "createMcpResponse"
   /\ IsNullish(call.result)
   /\ ~call.isError)
    => /\ outcome.status = "returned"
       /\ outcome.value.content[1].text = TwoQuotesText
       /\ ~HasIsError(outcome.value)
       /\ ~Has(outcome.value, "structuredContent")

---------------------------------------------------------------------------
(* Claims about the feature tools and the listing.                         *)

\* C30: describe_feature and execute_feature answer something other than
\* FEATURE_NOT_FOUND only for a name list_features lists for the domain; an
\* entry of the domain that is no function (such as cruds) is not listed,
\* and both tools answer FEATURE_NOT_FOUND for it and call nothing.
C30_FeatureToolsAgreeWithListing ==
  call.tool \in FeatureTools =>
    /\ OutcomeErrorCode(outcome) # "FEATURE_NOT_FOUND"
         => call.featureName \in ListedFeatureNames(cfg, call.domain)
    /\ (/\ call.domain \in RegisteredDomains
        /\ call.featureName \in EntryNames(call.domain)
        /\ EntryType(call.domain, call.featureName) # "function")
         => /\ call.featureName \notin ListedFeatureNames(cfg, call.domain)
            /\ OutcomeErrorCode(outcome) = "FEATURE_NOT_FOUND"
            /\ invoked = {}

---------------------------------------------------------------------------
(* Claims about the HTTP app: sessions and the tools they serve.           *)

\* Every step leaves the tools of every server that exists as they were.
SessionToolsFixed ==
  \A n \in 1..Len(http.servers) :
    /\ n <= Len(http'.servers)
    /\ http'.servers[n].tools = http.servers[n].tools
\* A server built in this step has the tools registered at this moment.
BuiltFromRegistry ==
  Len(http'.servers) > Len(http.servers)
    => http'.servers[Len(http'.servers)].tools = _buildAllTools(cfg, tools)
\* A tools/list answered in this step lists the tools of the session's
\* server, or in stateless mode the tools registered at this moment.
ServedFromBuild ==
  (/\ http'.response # http.response
   /\ http'.response.status = 200
   /\ Has(http'.response.body, "tools"))
    => http'.response.body.tools =
         IF http.stateful
           THEN http.servers[http'.response.routedTo].tools
           ELSE _buildAllTools(cfg, tools)
\* A step of the HTTP app leaves the registry and the hide rules alone.
RequestsReadOnly == http' # http => (tools' = tools /\ cfg' = cfg)

\* C25: the tools of a built server are fixed: a session keeps the tools it
\* was built with whatever is added later, a stateless request is served
\* the tools registered before it, and no request changes the registry or
\* the hide rules.
C25_ToolSetFixedOnceBuilt ==
  [][SessionToolsFixed /\ BuiltFromRegistry /\ ServedFromBuild /\ RequestsReadOnly]_vars
\* A session answers tools/list with the tools it was built with although
\* a tool has been added since.
C25_Witness ==
  /\ http.stateful
  /\ http.response.status = 200
  /\ Has(http.response.body, "tools")
  /\ http.response.body.tools # _buildAllTools(cfg, tools)

\* The session table holds the initialized, not yet closed transports,
\* each under its own session id.
TableHoldsLiveSessions ==
  /\ \A id \in DOMAIN http.transports :
       /\ http.servers[http.transports[id]].state = "initialized"
       /\ http.servers[http.transports[id]].sessionId = id
  /\ \A n \in 1..Len(http.servers) :
       http.servers[n].state = "initialized"
         => /\ http.servers[n].sessionId \in DOMAIN http.transports
            /\ http.transports[http.servers[n].sessionId] = n
\* The request answered in this step carried the id of a closed session.
CarriesClosedSessionId(request) ==
  /\ hasSessionId(request.headers)
  /\ \E n \in 1..Len(http.servers) :
       /\ http.servers[n].state = "closed"
       /\ http.servers[n].sessionId = request.headers.mcpSessionId
ClosedSessionRejected ==
  (/\ http.stateful
   /\ http'.response # http.response
   /\ http'.response # NoResponse
   /\ CarriesClosedSessionId(http'.response.request))
    => /\ http'.response.status = BAD_REQUEST_STATUS
       /\ http'.response.routedTo = 0
NeverRoutedToClosed == http.response # NoResponse => http.response.routedState # "closed"

\* C28: the session table holds exactly the live sessions, keyed by session
\* id; once a transport has closed, a POST, GET or DELETE carrying its id
\* is answered 400 and is not handed to the closed transport.
C28_SessionTableHoldsLiveSessions ==
  /\ [](TableHoldsLiveSessions /\ NeverRoutedToClosed)
  /\ [][ClosedSessionRejected]_vars
\* A request carrying the id of a closed session has been answered 400
\* while another session is live.
C28_Witness ==
  /\ http.response # NoResponse
  /\ CarriesClosedSessionId(http.response.request)
  /\ http.response.status = BAD_REQUEST_STATUS
  /\ DOMAIN http.transports # {}

\* The POST has a session id the table knows.
KnownSession(request) ==
  /\ hasSessionId(request.headers)
  /\ request.headers.mcpSessionId \in DOMAIN http.transports
\* The POST has no session id (no header, or an empty one) and its body is
\* an initialize request.
OpensSession(request) ==
  /\ request.method = "POST"
  /\ ~hasSessionId(request.headers)
  /\ Has(request.body, "method")
  /\ request.body.method = "initialize"
\* A step that makes a server answers a POST that opens a session.
OnlyInitializeBuilds ==
  http'.servers # http.servers /\ Len(http'.servers) > Len(http.servers)
    => /\ http'.response # NoResponse
       /\ OpensSession(http'.response.request)
OtherPostRejected ==
  (/\ http.stateful
   /\ http'.response # http.response
   /\ http'.response # NoResponse
   /\ http'.response.request.method = "POST"
   /\ ~KnownSession(http'.response.request)
   /\ ~OpensSession(http'.response.request))
    => /\ http'.response.status = BAD_REQUEST_STATUS
       /\ http'.response.body = BadRequestNoSession
       /\ http'.servers = http.servers
       /\ http'.transports = http.transports
StatelessGetDeleteUnhandled ==
  (/\ ~http.stateful
   /\ http.response # NoResponse
   /\ http.response.request.method \in {"GET", "DELETE"})
    => http.response.status = UNHANDLED_REQUEST_STATUS

\* C29: in stateful mode a server and transport are made only for a POST
\* without a session id whose body is an initialize request; any other
\* POST without a known session id gets 400 with JSON-RPC error -32000,
\* makes nothing and leaves the table as it is; in stateless mode GET and
\* DELETE on the MCP path get 405.
C29_OnlyInitializeOpensSession ==
  /\ []StatelessGetDeleteUnhandled
  /\ [][OnlyInitializeBuilds /\ OtherPostRejected]_vars
\* An initialize POST that carries an unknown session id was answered 400
\* with error -32000 while a session exists.
C29_Witness ==
  /\ http.stateful
  /\ http.response # NoResponse
  /\ http.response.request.method = "POST"
  /\ hasSessionId(http.response.request.headers)
  /\ isInitializeRequest(http.response.request.body)
  /\ http.response.status = BAD_REQUEST_STATUS
  /\ http.response.body.error.code = -32000
  /\ Len(http.servers) = 1

====
